---- MODULE Spec2Model ----
(***************************************************************************)
(* Model of the Tally thermal print application.                           *)
(*                                                                         *)
(* Part 1: the Document Extractor, parseTallyXML.  The repository holds    *)
(* two copies of it: src/unnamed/part_002 and src/src/parseTallyXML.js.    *)
(* They differ in the heading rule and in the company selector; the        *)
(* variable `build` says which copy runs.                                  *)
(*                                                                         *)
(* Text is a sequence of one-character strings, so that trim, split,       *)
(* slice, includes, toUpperCase, parseFloat and toFixed are computed.      *)
(* A JavaScript number is [nan, neg, m]: not-a-number, or a sign and a     *)
(* magnitude m counted in thousandths.                                     *)
(***************************************************************************)
EXTENDS Integers, Sequences, FiniteSets, TLC

VARIABLES build, xmlString, data,
          version, calls,
          targetWidth, image, imageCommands,
          revision, app, readers, loads, print

extractorVars == <<build, xmlString, data>>

encoderVars == <<version, calls>>

rasterVars == <<targetWidth, image, imageCommands>>

appVars == <<revision, app, readers, loads, print>>

vars == <<extractorVars, encoderVars, rasterVars, appVars>>

(***************************************************************************)
(* Bounds of the model.                                                    *)
(***************************************************************************)
MaxItems == 2
MaxLedgers == 2

(***************************************************************************)
(* Characters and text primitives of the JavaScript String type.           *)
(***************************************************************************)
DigitChars == <<"0", "1", "2", "3", "4", "5", "6", "7", "8", "9">>

LowerChars == <<"a", "b", "c", "d", "e", "f", "g", "h", "i", "j", "k", "l", "m",
                "n", "o", "p", "q", "r", "s", "t", "u", "v", "w", "x", "y", "z">>

UpperChars == <<"A", "B", "C", "D", "E", "F", "G", "H", "I", "J", "K", "L", "M",
                "N", "O", "P", "Q", "R", "S", "T", "U", "V", "W", "X", "Y", "Z">>

WhiteChars == {" ", "\n", "\t"}

IsDigit(c) == \E i \in 1..10 : DigitChars[i] = c

DigitVal(c) == (CHOOSE i \in 1..10 : DigitChars[i] = c) - 1

DigitChar(n) == DigitChars[n + 1]

Min(a, b) == IF a < b THEN a ELSE b

\* String.prototype.toUpperCase, one character
UpperChar(c) ==
    IF \E i \in 1..26 : LowerChars[i] = c
    THEN UpperChars[CHOOSE i \in 1..26 : LowerChars[i] = c]
    ELSE c

\* String.prototype.toUpperCase
toUpperCase(s) == [i \in 1..Len(s) |-> UpperChar(s[i])]

\* String.prototype.includes
includes(s, sub) ==
    \E i \in 0..(Len(s) - Len(sub)) : SubSeq(s, i + 1, i + Len(sub)) = sub

\* String.prototype.slice(a, b) with 0 <= a <= b, clamped to the length
slice(s, a, b) == SubSeq(s, a + 1, Min(b, Len(s)))

\* String.prototype.trim
trim(s) ==
    IF \A i \in 1..Len(s) : s[i] \in WhiteChars
    THEN <<>>
    ELSE LET first == CHOOSE i \in 1..Len(s) :
                          /\ s[i] \notin WhiteChars
                          /\ \A j \in 1..(i - 1) : s[j] \in WhiteChars
             last == CHOOSE i \in 1..Len(s) :
                          /\ s[i] \notin WhiteChars
                          /\ \A j \in (i + 1)..Len(s) : s[j] \in WhiteChars
         IN SubSeq(s, first, last)

\* s.split(sep)[0]: the text before the first occurrence of the character sep
splitFirst(s, sep) ==
    IF \E i \in 1..Len(s) : s[i] = sep
    THEN LET at == CHOOSE i \in 1..Len(s) :
                       /\ s[i] = sep
                       /\ \A j \in 1..(i - 1) : s[j] # sep
         IN SubSeq(s, 1, at - 1)
    ELSE s

\* the length of the longest run of digits of s that starts at position from
DigitRun(s, from) ==
    IF from > Len(s) \/ ~IsDigit(s[from])
    THEN 0
    ELSE LET stop == CHOOSE k \in from..Len(s) :
                         /\ \A j \in from..k : IsDigit(s[j])
                         /\ (k = Len(s) \/ ~IsDigit(s[k + 1]))
         IN stop - from + 1

RECURSIVE DigitsValue(_)
\* the natural number written by a sequence of digits
DigitsValue(ds) ==
    IF ds = <<>> THEN 0
    ELSE 10 * DigitsValue(SubSeq(ds, 1, Len(ds) - 1)) + DigitVal(ds[Len(ds)])

RECURSIVE NatDigits(_)
\* the decimal digits of a natural number
NatDigits(n) ==
    IF n < 10 THEN <<DigitChar(n)>>
    ELSE Append(NatDigits(n \div 10), DigitChar(n % 10))

(***************************************************************************)
(* JavaScript numbers.                                                     *)
(***************************************************************************)
NaN == [nan |-> TRUE, neg |-> FALSE, m |-> 0]

Num(neg, m) == [nan |-> FALSE, neg |-> neg, m |-> m]

Zero == Num(FALSE, 0)

\* the fraction digits, as thousandths (digits after the third are dropped:
\* no input of the model has more than three)
Thousandths(fs) ==
    LET f == SubSeq(fs, 1, Min(3, Len(fs)))
    IN CASE Len(f) = 0 -> 0
         [] Len(f) = 1 -> 100 * DigitsValue(f)
         [] Len(f) = 2 -> 10 * DigitsValue(f)
         [] OTHER -> DigitsValue(f)

\* parseFloat of a text: leading white space skipped, an optional sign, digits,
\* an optional fraction; what follows the number is ignored; NaN without digits
parseFloat(text) ==
    LET s == IF \A i \in 1..Len(text) : text[i] \in WhiteChars
             THEN <<>>
             ELSE SubSeq(text,
                         CHOOSE i \in 1..Len(text) :
                             /\ text[i] \notin WhiteChars
                             /\ \A j \in 1..(i - 1) : text[j] \in WhiteChars,
                         Len(text))
        signed == Len(s) > 0 /\ s[1] \in {"-", "+"}
        neg == Len(s) > 0 /\ s[1] = "-"
        p == IF signed THEN 2 ELSE 1
        nInt == DigitRun(s, p)
        dot == p + nInt <= Len(s) /\ s[p + nInt] = "."
        nFrac == IF dot THEN DigitRun(s, p + nInt + 1) ELSE 0
    IN IF nInt = 0 /\ nFrac = 0
       THEN NaN
       ELSE Num(neg, 1000 * DigitsValue(SubSeq(s, p, p + nInt - 1))
                     + Thousandths(SubSeq(s, p + nInt + 1, p + nInt + nFrac)))

\* Math.abs
abs(x) == IF x.nan THEN NaN ELSE Num(FALSE, x.m)

\* x + y for y >= 0 (the reducer of the subtotal adds magnitudes)
plus(x, y) ==
    IF x.nan \/ y.nan THEN NaN
    ELSE IF x.neg = y.neg THEN Num(x.neg, x.m + y.m)
    ELSE IF x.m >= y.m THEN Num(x.neg /\ x.m > y.m, x.m - y.m)
    ELSE Num(y.neg, y.m - x.m)

\* the truth value of a number in `a || b`: 0, -0 and NaN are falsy
truthy(x) == ~x.nan /\ x.m # 0

\* Number.prototype.toFixed(2): "NaN", or sign, integer part, ".", two digits;
\* the sign is that of x before rounding, so -0.001 prints "-0.00" and -0 "0.00"
toFixed2(x) ==
    IF x.nan THEN <<"N", "a", "N">>
    ELSE LET h == (x.m + 5) \div 10
         IN (IF x.neg /\ x.m > 0 THEN <<"-">> ELSE <<>>)
            \o NatDigits(h \div 100)
            \o <<".", DigitChar((h % 100) \div 10), DigitChar(h % 10)>>

(***************************************************************************)
(* The parsed document.  An element is [tag, text, children]; a leaf has   *)
(* no children and a list element has leaves for children.  The children   *)
(* of the VOUCHER element are given in document order.                     *)
(***************************************************************************)
Leaf(tag, text) == [tag |-> tag, text |-> text, children |-> <<>>]

List(tag, kids) == [tag |-> tag, text |-> <<>>, children |-> kids]

RECURSIVE Descendants(_)
\* the descendants of an element whose children are kids, in document order
Descendants(kids) ==
    IF kids = <<>> THEN <<>>
    ELSE <<Head(kids)>> \o Descendants(Head(kids).children) \o Descendants(Tail(kids))

RECURSIVE SelectTag(_, _)
\* the elements of seq whose tag is t, in order
SelectTag(seq, t) ==
    IF seq = <<>> THEN <<>>
    ELSE (IF Head(seq).tag = t THEN <<Head(seq)>> ELSE <<>>) \o SelectTag(Tail(seq), t)

\* node.querySelectorAll(tag): every descendant with that tag, in document order
getAll(tag, node) == SelectTag(Descendants(node.children), tag)

\* node.querySelector(tag)?.textContent, or "" when there is no such element
textContentOf(tag, node) ==
    LET found == getAll(tag, node)
    IN IF found = <<>> THEN <<>> ELSE found[1].text

\* get: node.querySelector(tag)?.textContent?.trim() || ''
get(tag, node) == trim(textContentOf(tag, node))

RECURSIVE joinLines(_)
\* Array.prototype.join('\n')
joinLines(texts) ==
    IF texts = <<>> THEN <<>>
    ELSE IF Len(texts) = 1 THEN texts[1]
    ELSE texts[1] \o <<"\n">> \o joinLines(Tail(texts))

RECURSIVE AddressLines(_)
\* 'BASICBUYERADDRESS\.LIST > BASICBUYERADDRESS': the address lines that are
\* children of an address list, each trimmed
AddressLines(lists) ==
    IF lists = <<>> THEN <<>>
    ELSE LET kids == SelectTag(Head(lists).children, "BASICBUYERADDRESS")
         IN [i \in 1..Len(kids) |-> trim(kids[i].text)] \o AddressLines(Tail(lists))

address(voucher) == joinLines(AddressLines(getAll("BASICBUYERADDRESS.LIST", voucher)))

\* the company name: part_002 asks for
\* REQUESTDESC > STATICVARIABLES > SVCURRENTCOMPANY, parseTallyXML.js for any
\* SVCURRENTCOMPANY element of the document
companyName(b, xmlDoc) ==
    IF xmlDoc.company.where = "requestdesc"
       \/ (b = "parseTallyXML.js" /\ xmlDoc.company.where = "elsewhere")
    THEN trim(xmlDoc.company.text)
    ELSE <<>>

(***************************************************************************)
(* Items.                                                                  *)
(***************************************************************************)
\* parseQty: the first space-separated token, or '0' when it is no number
parseQty(qtyStr) ==
    LET qty == splitFirst(trim(qtyStr), " ")
    IN IF parseFloat(qty).nan THEN <<"0">> ELSE qty

\* get('RATE', el)?.split('/')[0] || 0, parsed and fixed to two decimals
rateOf(el) ==
    LET r == splitFirst(get("RATE", el), "/")
    IN toFixed2(IF r = <<>> THEN Zero ELSE parseFloat(r))

\* variant: the amount keeps the sign of the source (no Math.abs)
absAmountOf_Signed(el) ==
    LET a == get("AMOUNT", el)
    IN toFixed2(IF a = <<>> THEN Zero ELSE parseFloat(a))

\* Math.abs(parseFloat(get('AMOUNT', el) || 0)).toFixed(2)
absAmountOf(el) ==
    LET a == get("AMOUNT", el)
    IN toFixed2(abs(IF a = <<>> THEN Zero ELSE parseFloat(a)))

\* the object built for one inventory entry
itemOf(el) ==
    [name |-> get("STOCKITEMNAME", el),
     qty |-> parseQty(get("ACTUALQTY", el)),
     rate |-> rateOf(el),
     amount |-> absAmountOf(el)]

\* parseItems(tag): one item per element of that list tag, in document order
parseItems(tag, voucher) ==
    LET els == getAll(tag, voucher)
    IN [i \in 1..Len(els) |-> itemOf(els[i])]

\* variant: the outbound list is read before the inbound list
itemsOf_OutBeforeIn(voucher) ==
    parseItems("ALLINVENTORYENTRIES.LIST", voucher)
    \o parseItems("INVENTORYENTRIESOUT.LIST", voucher)
    \o parseItems("INVENTORYENTRIESIN.LIST", voucher)

\* the items of the three lists, concatenated
itemsOf(voucher) ==
    parseItems("ALLINVENTORYENTRIES.LIST", voucher)
    \o parseItems("INVENTORYENTRIESIN.LIST", voucher)
    \o parseItems("INVENTORYENTRIESOUT.LIST", voucher)

RECURSIVE sumAmounts(_)
\* items.reduce((sum, i) => sum + parseFloat(i.amount), 0)
sumAmounts(items) ==
    IF items = <<>> THEN Zero
    ELSE plus(sumAmounts(SubSeq(items, 1, Len(items) - 1)),
              parseFloat(items[Len(items)].amount))

\* variant: the reducer returns at the first item
subtotalOf_FirstItem(items) ==
    IF items = <<>> THEN Zero ELSE parseFloat(items[1].amount)

\* const subtotal = items.reduce(..., 0)
subtotalOf(items) == sumAmounts(items)

(***************************************************************************)
(* Ledger entries.                                                         *)
(***************************************************************************)
ledgerEntriesOf(voucher) == getAll("LEDGERENTRIES.LIST", voucher)

\* the position of the first ledger entry whose field tag, trimmed, is value;
\* 0 when there is none (Array.prototype.find)
findEntry(ledgerEntries, tag, value) ==
    IF \E i \in 1..Len(ledgerEntries) : get(tag, ledgerEntries[i]) = value
    THEN CHOOSE i \in 1..Len(ledgerEntries) :
             /\ get(tag, ledgerEntries[i]) = value
             /\ \A j \in 1..(i - 1) : get(tag, ledgerEntries[j]) # value
    ELSE 0

\* findAmount: parseFloat(entry?.querySelector('AMOUNT')?.textContent || 0)
findAmount(ledgerEntries, ledgerName) ==
    LET at == findEntry(ledgerEntries, "LEDGERNAME", ledgerName)
        t == IF at = 0 THEN <<>> ELSE textContentOf("AMOUNT", ledgerEntries[at])
    IN IF t = <<>> THEN Zero ELSE parseFloat(t)

\* variant: only the primary label is looked up
sgstOf_NoFallback(ledgerEntries) == findAmount(ledgerEntries, <<"S", "G", "S", "T">>)

\* findAmount('SGST') || findAmount('SGST/UTGST')
sgstOf(ledgerEntries) ==
    IF truthy(findAmount(ledgerEntries, <<"S", "G", "S", "T">>))
    THEN findAmount(ledgerEntries, <<"S", "G", "S", "T">>)
    ELSE findAmount(ledgerEntries, <<"S", "G", "S", "T", "/", "U", "T", "G", "S", "T">>)

\* variant: the party ledger's amount keeps its sign (no Math.abs)
totalOf_Signed(ledgerEntries, subtotal) ==
    LET at == findEntry(ledgerEntries, "ISPARTYLEDGER", <<"Y", "e", "s">>)
        a == IF at = 0 THEN <<>> ELSE get("AMOUNT", ledgerEntries[at])
    IN IF at # 0
       THEN toFixed2(IF a = <<>> THEN Zero ELSE parseFloat(a))
       ELSE toFixed2(subtotal)

\* the total: the party ledger's absolute amount, else the subtotal
totalOf(ledgerEntries, subtotal) ==
    LET at == findEntry(ledgerEntries, "ISPARTYLEDGER", <<"Y", "e", "s">>)
        a == IF at = 0 THEN <<>> ELSE get("AMOUNT", ledgerEntries[at])
    IN IF at # 0
       THEN toFixed2(abs(IF a = <<>> THEN Zero ELSE parseFloat(a)))
       ELSE toFixed2(subtotal)

(***************************************************************************)
(* Heading and date.                                                       *)
(***************************************************************************)
\* the heading rule; the SALES INVOICE branch is in part_002 only
headingOf(b, voucherTypeName) ==
    LET voucherType == toUpperCase(voucherTypeName)
    IN IF includes(voucherType, <<"S", "A", "L", "E", "S", " ", "O", "R", "D", "E", "R">>) THEN "SALES ORDER"
       ELSE IF includes(voucherType, <<"M", "A", "T", "E", "R", "I", "A", "L", " ", "O", "U", "T">>)
               \/ includes(voucherType, <<"D", "E", "L", "I", "V", "E", "R", "Y">>) THEN "MATERIAL CHALLAN"
       ELSE IF b = "part_002" /\ includes(voucherType, <<"S", "A", "L", "E", "S">>) THEN "SALES INVOICE"
       ELSE "DOCUMENT"

\* variant: month and day change places
formatDate_MonthFirst(d) ==
    IF d = <<>> THEN <<>>
    ELSE slice(d, 4, 6) \o <<"-">> \o slice(d, 6, 8) \o <<"-">> \o slice(d, 0, 4)

\* formatDate: d ? d.slice(6, 8) - d.slice(4, 6) - d.slice(0, 4) : ''
formatDate(d) ==
    IF d = <<>> THEN <<>>
    ELSE slice(d, 6, 8) \o <<"-">> \o slice(d, 4, 6) \o <<"-">> \o slice(d, 0, 4)

(***************************************************************************)
(* parseTallyXML.                                                          *)
(*                                                                         *)
(* The argument is [isString, refs4, wellFormed, doc]: whether it is a     *)
(* string at all, how many "&#4;" references it holds, whether the text    *)
(* without them is well-formed XML, and the document it then parses to.    *)
(***************************************************************************)
\* xmlString.replace(/&#4;/g, ''): every reference is removed
cleanedOf(x) == [x EXCEPT !.refs4 = 0]

\* DOMParser.parseFromString: a parsererror document unless the text is
\* well-formed and holds no invalid character reference
parseFromString(cleaned) ==
    IF cleaned.wellFormed /\ cleaned.refs4 = 0
    THEN [parsererror |-> FALSE, company |-> cleaned.doc.company,
          vouchers |-> cleaned.doc.vouchers]
    ELSE [parsererror |-> TRUE, company |-> [where |-> "none", text |-> <<>>],
          vouchers |-> <<>>]

Throw == [kind |-> "throw"]

Null == [kind |-> "null"]

Pending == [kind |-> "pending"]

\* the object of the return statement
documentOf(b, xmlDoc, voucher) ==
    LET items == itemsOf(voucher)
        subtotal == subtotalOf(items)
        ledgerEntries == ledgerEntriesOf(voucher)
    IN [heading |-> headingOf(b, get("VOUCHERTYPENAME", voucher)),
        company |-> [name |-> companyName(b, xmlDoc),
                     gstin |-> get("CMPGSTIN", voucher)],
        order |-> [number |-> get("VOUCHERNUMBER", voucher),
                   date |-> formatDate(get("DATE", voucher)),
                   user |-> get("ENTEREDBY", voucher)],
        party |-> [name |-> get("PARTYNAME", voucher),
                   address |-> address(voucher),
                   gstin |-> get("PARTYGSTIN", voucher)],
        items |-> items,
        totals |-> [subtotal |-> toFixed2(subtotal),
                    igst |-> toFixed2(findAmount(ledgerEntries, <<"I", "G", "S", "T">>)),
                    cgst |-> toFixed2(findAmount(ledgerEntries, <<"C", "G", "S", "T">>)),
                    sgst |-> toFixed2(sgstOf(ledgerEntries)),
                    total |-> totalOf(ledgerEntries, subtotal)],
        narration |-> get("NARRATION", voucher)]

\* variant: a missing VOUCHER element is read as an empty one
tryBody_EmptyVoucher(b, x) ==
    IF ~x.isString THEN Throw
    ELSE LET xmlDoc == parseFromString(cleanedOf(x))
             voucher == IF xmlDoc.vouchers = <<>> THEN List("VOUCHER", <<>>)
                        ELSE xmlDoc.vouchers[1]
         IN IF xmlDoc.parsererror THEN Throw
            ELSE [kind |-> "doc", doc |-> documentOf(b, xmlDoc, voucher)]

\* the body of the try block: a thrown error or the returned document
tryBody(b, x) ==
    IF ~x.isString THEN Throw
    ELSE LET xmlDoc == parseFromString(cleanedOf(x))
         IN IF xmlDoc.parsererror THEN Throw
            ELSE IF xmlDoc.vouchers = <<>> THEN Throw
            ELSE [kind |-> "doc", doc |-> documentOf(b, xmlDoc, xmlDoc.vouchers[1])]

\* variant: no catch clause, the error reaches the caller
parseTallyXML_NoCatch(b, x) == tryBody(b, x)

\* parseTallyXML: the catch clause turns every error into null
parseTallyXML(b, x) ==
    LET r == tryBody(b, x)
    IN IF r.kind = "throw" THEN Null ELSE r

(***************************************************************************)
(* The inputs of the model: the uploaded texts.  The vouchers vary the     *)
(* header around the fixture's entries, and the inventory and ledger       *)
(* entries (every sequence up to the bounds) under the fixture's header.   *)
(***************************************************************************)
SeqsUpTo(S, n) == UNION {[1..k -> S] : k \in 0..n}

\* the inventory entry of the fixture voucher
PenEntry ==
    List("ALLINVENTORYENTRIES.LIST",
         <<Leaf("STOCKITEMNAME", <<"P", "e", "n">>), Leaf("RATE", <<"5", ".", "5", "/", "P", "C", "S">>),
           Leaf("AMOUNT", <<"-", "5", "5", ".", "0", "0">>), Leaf("ACTUALQTY", <<"1", "0", " ", "N", "O", "S">>)>>)

\* inventory entries, under each of the three list tags
InvPool ==
    {PenEntry,
     List("INVENTORYENTRIESIN.LIST",
          <<Leaf("STOCKITEMNAME", <<"I", "n", "k">>), Leaf("RATE", <<"1", ".", "2", "5", "7", "/", "K", "G">>),
            Leaf("AMOUNT", <<"2", ".", "5", "1">>), Leaf("ACTUALQTY", <<" ", "2", " ", "K", "G">>)>>),
     List("INVENTORYENTRIESOUT.LIST",
          <<Leaf("STOCKITEMNAME", <<"C", "a", "p">>)>>),
     List("ALLINVENTORYENTRIES.LIST",
          <<Leaf("STOCKITEMNAME", <<"B", "o", "x">>), Leaf("RATE", <<"-", "3", "/", "P", "C">>),
            Leaf("AMOUNT", <<"n", "/", "a">>), Leaf("ACTUALQTY", <<"f", "e", "w">>)>>)}

\* the party ledger entry of the fixture voucher
PartyEntry ==
    List("LEDGERENTRIES.LIST",
         <<Leaf("LEDGERNAME", <<"C", "a", "s", "h">>), Leaf("ISPARTYLEDGER", <<"Y", "e", "s">>),
           Leaf("AMOUNT", <<"-", "6", "4", ".", "9", "0">>)>>)

\* ledger entries: taxes under both SGST labels, and party ledgers
LedgerPool ==
    {List("LEDGERENTRIES.LIST",
          <<Leaf("LEDGERNAME", <<"S", "G", "S", "T">>), Leaf("AMOUNT", <<"4", ".", "9", "5">>)>>),
     List("LEDGERENTRIES.LIST",
          <<Leaf("LEDGERNAME", <<"S", "G", "S", "T">>), Leaf("AMOUNT", <<"0", ".", "0", "0">>)>>),
     List("LEDGERENTRIES.LIST",
          <<Leaf("LEDGERNAME", <<"S", "G", "S", "T", "/", "U", "T", "G", "S", "T">>), Leaf("AMOUNT", <<"2", ".", "5", "0">>)>>),
     List("LEDGERENTRIES.LIST",
          <<Leaf("LEDGERNAME", <<"I", "G", "S", "T">>), Leaf("AMOUNT", <<"-", "9", ".", "9", "0">>)>>),
     PartyEntry}

\* the leaves of the voucher and what surrounds it: voucher type, date,
\* company element and the number of "&#4;" references in the text
FixtureHeader ==
    [type |-> <<Leaf("VOUCHERTYPENAME", <<"S", "a", "l", "e", "s", " ", "O", "r", "d", "e", "r">>)>>,
     date |-> <<Leaf("DATE", <<"2", "0", "2", "5", "0", "7", "0", "9">>)>>,
     company |-> [where |-> "requestdesc", text |-> <<" ", "A", "c", "m", "e", " ">>], refs4 |-> 1]

HeaderPool ==
    {FixtureHeader,
     [type |-> <<Leaf("VOUCHERTYPENAME", <<"S", "a", "l", "e", "s">>)>>,
      date |-> <<Leaf("DATE", <<"2", "0", "2", "4", "1", "2", "3", "1">>)>>,
      company |-> [where |-> "elsewhere", text |-> <<"A", "c", "m", "e">>], refs4 |-> 0],
     [type |-> <<Leaf("VOUCHERTYPENAME", <<"T", "a", "x", " ", "s", "a", "l", "e", "s">>)>>,
      date |-> <<>>,
      company |-> [where |-> "none", text |-> <<>>], refs4 |-> 0],
     [type |-> <<Leaf("VOUCHERTYPENAME", <<"M", "a", "t", "e", "r", "i", "a", "l", " ", "O", "u", "t">>)>>,
      date |-> <<Leaf("DATE", <<>>)>>,
      company |-> [where |-> "requestdesc", text |-> <<"A", "c", "m", "e">>], refs4 |-> 0],
     [type |-> <<Leaf("VOUCHERTYPENAME", <<"D", "e", "l", "i", "v", "e", "r", "y", " ", "N", "o", "t", "e">>)>>,
      date |-> <<Leaf("DATE", <<" ", "2", "0", "2", "5", "0", "7", "0", "9", " ">>)>>,
      company |-> [where |-> "requestdesc", text |-> <<"A", "c", "m", "e">>], refs4 |-> 1],
     [type |-> <<Leaf("VOUCHERTYPENAME", <<"S", "a", "l", "e", "s", " ", "D", "e", "l", "i", "v", "e", "r", "y">>)>>,
      date |-> <<Leaf("DATE", <<"2", "0", "2", "5", "0", "7", "0", "9">>)>>,
      company |-> [where |-> "none", text |-> <<>>], refs4 |-> 0],
     [type |-> <<Leaf("VOUCHERTYPENAME", <<"D", "e", "l", "i", "v", "e", "r", "y", " ", "o", "f", " ", "S", "a", "l", "e", "s", " ", "O", "r", "d", "e", "r">>)>>,
      date |-> <<Leaf("DATE", <<"2", "0", "2", "4", "1", "2", "3", "1">>)>>,
      company |-> [where |-> "requestdesc", text |-> <<"A", "c", "m", "e">>], refs4 |-> 0],
     [type |-> <<Leaf("VOUCHERTYPENAME", <<"P", "u", "r", "c", "h", "a", "s", "e">>)>>,
      date |-> <<Leaf("DATE", <<"2", "0", "2", "5", "0", "7", "0", "9">>)>>,
      company |-> [where |-> "requestdesc", text |-> <<"A", "c", "m", "e">>], refs4 |-> 0],
     [type |-> <<>>,
      date |-> <<Leaf("DATE", <<"2", "0", "2", "5", "0", "7", "0", "9">>)>>,
      company |-> [where |-> "requestdesc", text |-> <<"A", "c", "m", "e">>], refs4 |-> 0]}

\* a text that parses to one VOUCHER element with these children
VoucherText(h, inv, led) ==
    [isString |-> TRUE, refs4 |-> h.refs4, wellFormed |-> TRUE,
     doc |-> [company |-> h.company,
              vouchers |-> <<List("VOUCHER", h.type \o h.date \o inv \o led)>>]]

\* a text that parses but holds no VOUCHER element
NoVoucherText(h) ==
    [isString |-> TRUE, refs4 |-> h.refs4, wellFormed |-> TRUE,
     doc |-> [company |-> h.company, vouchers |-> <<>>]]

\* a text that is not well-formed XML
MalformedText(h) ==
    [isString |-> TRUE, refs4 |-> h.refs4, wellFormed |-> FALSE,
     doc |-> [company |-> h.company, vouchers |-> <<>>]]

\* a value that is no string (null, undefined, a number)
NotAString ==
    [isString |-> FALSE, refs4 |-> 0, wellFormed |-> FALSE,
     doc |-> [company |-> [where |-> "none", text |-> <<>>], vouchers |-> <<>>]]

Inputs ==
    {NotAString}
    \cup {MalformedText(h) : h \in HeaderPool}
    \cup {NoVoucherText(h) : h \in HeaderPool}
    \cup {VoucherText(h, <<PenEntry>>, <<PartyEntry>>) : h \in HeaderPool}
    \cup {VoucherText(FixtureHeader, inv, led) :
              inv \in SeqsUpTo(InvPool, MaxItems),
              led \in SeqsUpTo(LedgerPool, MaxLedgers)}

Builds == {"part_002", "parseTallyXML.js"}

(***************************************************************************)
(* The parts of the application that a specification leaves at rest.       *)
(***************************************************************************)
\* img.onerror: the load of the image failed
LoadError == [kind |-> "error"]

\* useState(null), useState('Ready. Please select a Tally XML file.')
InitialApp == [xmlData |-> Null, status |-> "Ready"]

\* no call of handleWebUSBPrint in progress, no alert shown
IdlePrint ==
    [pc |-> "idle", opened |-> FALSE, claimed |-> FALSE, copies |-> 0, i |-> 0,
     text |-> Null, sent |-> <<>>, alert |-> "none", closeCalled |-> FALSE]

\* no call of generateEscPosCommands
EncoderQuiet == version = "part_001" /\ calls = <<>>

\* no call of printImage
RasterQuiet == targetWidth = 384 /\ image = LoadError /\ imageCommands = Pending

\* no file selected, no print asked for
AppQuiet ==
    /\ revision = "App.jsx"
    /\ app = InitialApp
    /\ readers = {}
    /\ loads = 0
    /\ print = IdlePrint

(***************************************************************************)
(* The extraction as a state machine: a text is given, parseTallyXML runs. *)
(***************************************************************************)
Init ==
    /\ build \in Builds
    /\ xmlString \in Inputs
    /\ data = Pending
    /\ EncoderQuiet
    /\ RasterQuiet
    /\ AppQuiet

\* const data = parseTallyXML(content)
Extract ==
    /\ data = Pending
    /\ data' = parseTallyXML(build, xmlString)
    /\ UNCHANGED <<build, xmlString, encoderVars, rasterVars, appVars>>

Next == Extract

Spec == Init /\ [][Next]_vars

(***************************************************************************)
(* What the properties speak about.                                        *)
(***************************************************************************)
Extracted == data.kind = "doc"

\* the text parses as XML once cleaned
ParsesAsXML == xmlString.isString /\ xmlString.wellFormed

HasVoucher == ParsesAsXML /\ xmlString.doc.vouchers # <<>>

SourceVoucher == xmlString.doc.vouchers[1]

InventoryTags ==
    <<"ALLINVENTORYENTRIES.LIST", "INVENTORYENTRIESIN.LIST", "INVENTORYENTRIESOUT.LIST">>

IsInventoryEntry(el) == \E r \in 1..3 : InventoryTags[r] = el.tag

IsLedgerEntry(el) == el.tag = "LEDGERENTRIES.LIST"

\* the inventory entries of the source voucher, in document order
SourceEntries == SelectSeq(SourceVoucher.children, IsInventoryEntry)

\* the ledger entries of the source voucher, in document order
SourceLedgers == SelectSeq(SourceVoucher.children, IsLedgerEntry)

TagRank(t) == CHOOSE r \in 1..3 : InventoryTags[r] = t

\* where the k-th source entry belongs in a sequence grouped by list tag
\* (generic, inbound, outbound) that keeps document order inside each group
Place(els, k) ==
    1 + Cardinality({j \in 1..Len(els) :
                        \/ TagRank(els[j].tag) < TagRank(els[k].tag)
                        \/ TagRank(els[j].tag) = TagRank(els[k].tag) /\ j < k})

\* a text written as digits, a point and exactly two digits, with no sign
NonNegTwoDecimals(t) ==
    /\ Len(t) >= 4
    /\ t[Len(t) - 2] = "."
    /\ \A i \in 1..Len(t) : i # Len(t) - 2 => IsDigit(t[i])

\* a token that begins with a number: an optional sign, then a digit or a
\* point and a digit
StartsWithNumber(tok) ==
    LET u == IF Len(tok) > 0 /\ tok[1] \in {"-", "+"} THEN Tail(tok) ELSE tok
    IN /\ Len(u) > 0
       /\ \/ IsDigit(u[1])
          \/ u[1] = "." /\ Len(u) > 1 /\ IsDigit(u[2])

\* the hundredths written by a text of the form digits.dd
Hundredths(t) == DigitsValue(SubSeq(t, 1, Len(t) - 3) \o SubSeq(t, Len(t) - 1, Len(t)))

RECURSIVE SumHundredths(_)
SumHundredths(items) ==
    IF items = <<>> THEN 0
    ELSE Hundredths(Head(items).amount) + SumHundredths(Tail(items))

\* the first source ledger entry whose field tag is value, or 0
FirstLedger(tag, value) ==
    IF \E i \in 1..Len(SourceLedgers) : get(tag, SourceLedgers[i]) = value
    THEN CHOOSE i \in 1..Len(SourceLedgers) :
             /\ get(tag, SourceLedgers[i]) = value
             /\ \A j \in 1..(i - 1) : get(tag, SourceLedgers[j]) # value
    ELSE 0

(***************************************************************************)
(* C1.  A text that parses as XML but holds no VOUCHER element gives the   *)
(* failure value null, never a document.                                   *)
(***************************************************************************)
C1_NoVoucherIsFailure ==
    (data # Pending /\ ParsesAsXML /\ xmlString.doc.vouchers = <<>>) => data = Null

C1_Witness ==
    /\ data = Null
    /\ ParsesAsXML
    /\ xmlString.doc.vouchers = <<>>

(***************************************************************************)
(* C2.  Whatever the input, the extraction ends with null or with a        *)
(* document that has every field of the return statement; no error         *)
(* leaves parseTallyXML and no document is partly populated.               *)
(***************************************************************************)
CompleteDocument(d) ==
    /\ DOMAIN d = {"heading", "company", "order", "party", "items", "totals", "narration"}
    /\ DOMAIN d.company = {"name", "gstin"}
    /\ DOMAIN d.order = {"number", "date", "user"}
    /\ DOMAIN d.party = {"name", "address", "gstin"}
    /\ DOMAIN d.totals = {"subtotal", "igst", "cgst", "sgst", "total"}
    /\ \A i \in 1..Len(d.items) : DOMAIN d.items[i] = {"name", "qty", "rate", "amount"}

C2_DocumentOrFailure ==
    data # Pending =>
        /\ data.kind \in {"null", "doc"}
        /\ data.kind = "null" => data = Null
        /\ data.kind = "doc" => HasVoucher /\ CompleteDocument(data.doc)
        /\ HasVoucher => data.kind = "doc"

C2_Witness ==
    /\ data = Null
    /\ ~xmlString.isString

(***************************************************************************)
(* C3.  As claimed: every inventory entry gives an item whose qty is the   *)
(* leading token of the quantity text, whose rate is the number before     *)
(* the "/" with two decimals and whose amount is the absolute source       *)
(* amount with two decimals.                                               *)
(***************************************************************************)
C3_QtyIsLeadingToken ==
    Extracted =>
        \A k \in 1..Len(SourceEntries) :
            Place(SourceEntries, k) <= Len(data.doc.items) =>
                LET el == SourceEntries[k]
                    item == data.doc.items[Place(SourceEntries, k)]
                    rate == splitFirst(trim(textContentOf("RATE", el)), "/")
                    amount == trim(textContentOf("AMOUNT", el))
                IN /\ item.qty = splitFirst(trim(textContentOf("ACTUALQTY", el)), " ")
                   /\ StartsWithNumber(rate) => item.rate = toFixed2(parseFloat(rate))
                   /\ StartsWithNumber(amount) =>
                          item.amount = toFixed2(Num(FALSE, parseFloat(amount).m))

(***************************************************************************)
(* C3, amended.  The qty is the leading token of the quantity text when    *)
(* that token begins with a number and "0" otherwise; the rate is the      *)
(* number before the "/" with two decimals, "0.00" when nothing stands     *)
(* there and "NaN" when it is no number; the amount is the absolute        *)
(* source amount with two decimals, "0.00" when absent and "NaN" when it   *)
(* is no number.  The fixture entry "10 NOS", "5.5/PCS", "-55.00" gives    *)
(* "10", "5.50", "55.00".                                                  *)
(***************************************************************************)
C3_ItemFields ==
    Extracted =>
        \A k \in 1..Len(SourceEntries) :
            Place(SourceEntries, k) <= Len(data.doc.items) =>
                LET el == SourceEntries[k]
                    item == data.doc.items[Place(SourceEntries, k)]
                    token == splitFirst(trim(textContentOf("ACTUALQTY", el)), " ")
                    rate == splitFirst(trim(textContentOf("RATE", el)), "/")
                    amount == trim(textContentOf("AMOUNT", el))
                IN /\ item.qty = IF StartsWithNumber(token) THEN token ELSE <<"0">>
                   /\ item.rate = IF rate = <<>> THEN <<"0", ".", "0", "0">>
                                  ELSE IF StartsWithNumber(rate)
                                       THEN toFixed2(parseFloat(rate))
                                       ELSE <<"N", "a", "N">>
                   /\ item.amount = IF amount = <<>> THEN <<"0", ".", "0", "0">>
                                    ELSE IF StartsWithNumber(amount)
                                         THEN toFixed2(Num(FALSE, parseFloat(amount).m))
                                         ELSE <<"N", "a", "N">>
                   /\ el = PenEntry =>
                          /\ item.qty = <<"1", "0">>
                          /\ item.rate = <<"5", ".", "5", "0">>
                          /\ item.amount = <<"5", "5", ".", "0", "0">>

C3_Witness ==
    /\ Extracted
    /\ Len(data.doc.items) = 2
    /\ \E i \in 1..2 : data.doc.items[i] =
           [name |-> <<"P", "e", "n">>, qty |-> <<"1", "0">>, rate |-> <<"5", ".", "5", "0">>, amount |-> <<"5", "5", ".", "0", "0">>]
    /\ \E i \in 1..2 : data.doc.items[i] =
           [name |-> <<"C", "a", "p">>, qty |-> <<"0">>, rate |-> <<"0", ".", "0", "0">>, amount |-> <<"0", ".", "0", "0">>]

(***************************************************************************)
(* C4.  The subtotal of a returned document is the sum of the amounts      *)
(* stored in its items, written with two decimals ("NaN" when an item      *)
(* amount is no number), whatever amounts the source carries; with no      *)
(* items it is "0.00".                                                     *)
(***************************************************************************)
C4_SubtotalIsSumOfItems ==
    Extracted =>
        LET items == data.doc.items
            numeric == \A i \in 1..Len(items) : NonNegTwoDecimals(items[i].amount)
        IN /\ numeric =>
                  data.doc.totals.subtotal = toFixed2(Num(FALSE, 10 * SumHundredths(items)))
           /\ ~numeric => data.doc.totals.subtotal = <<"N", "a", "N">>
           /\ items = <<>> => data.doc.totals.subtotal = <<"0", ".", "0", "0">>

C4_Witness ==
    /\ Extracted
    /\ Len(data.doc.items) = 2
    /\ data.doc.items[1].amount = <<"5", "5", ".", "0", "0">>
    /\ data.doc.items[2].amount = <<"2", ".", "5", "1">>
    /\ data.doc.totals.subtotal = <<"5", "7", ".", "5", "1">>
    /\ FirstLedger("ISPARTYLEDGER", <<"Y", "e", "s">>) # 0

(***************************************************************************)
(* C5.  With a ledger entry flagged ISPARTYLEDGER = "Yes" the total is     *)
(* the absolute value of that entry's amount with two decimals; with no    *)
(* such entry the total is the very text of the subtotal.                  *)
(***************************************************************************)
C5_TotalResolution ==
    Extracted =>
        LET at == FirstLedger("ISPARTYLEDGER", <<"Y", "e", "s">>)
            amount == trim(textContentOf("AMOUNT", SourceLedgers[at]))
        IN /\ (at # 0 /\ StartsWithNumber(amount)) =>
                  data.doc.totals.total = toFixed2(Num(FALSE, parseFloat(amount).m))
           /\ (at # 0 /\ SourceLedgers[at] = PartyEntry) =>
                  data.doc.totals.total = <<"6", "4", ".", "9", "0">>
           /\ at = 0 => data.doc.totals.total = data.doc.totals.subtotal

C5_Witness ==
    /\ Extracted
    /\ FirstLedger("ISPARTYLEDGER", <<"Y", "e", "s">>) # 0
    /\ data.doc.totals.total = <<"6", "4", ".", "9", "0">>
    /\ data.doc.totals.subtotal = <<"5", "7", ".", "5", "1">>

\* the other case of C5: no party ledger, the total is the subtotal
C5_FallbackReached ==
    /\ Extracted
    /\ FirstLedger("ISPARTYLEDGER", <<"Y", "e", "s">>) = 0
    /\ data.doc.totals.total = <<"5", "7", ".", "5", "1">>

(***************************************************************************)
(* C6.  With no ledger entry named "SGST" and one named "SGST/UTGST",      *)
(* sgst is the amount of the "SGST/UTGST" entry; with neither, sgst is     *)
(* the zero amount and the extraction still succeeds.                      *)
(***************************************************************************)
C6_SgstFallback ==
    (data # Pending /\ HasVoucher) =>
        LET primary == FirstLedger("LEDGERNAME", <<"S", "G", "S", "T">>)
            alternate == FirstLedger("LEDGERNAME", <<"S", "G", "S", "T", "/", "U", "T", "G", "S", "T">>)
        IN /\ Extracted
           /\ (primary = 0 /\ alternate # 0) =>
                  /\ data.doc.totals.sgst =
                         toFixed2(parseFloat(textContentOf("AMOUNT", SourceLedgers[alternate])))
                  /\ data.doc.totals.sgst = <<"2", ".", "5", "0">>
           /\ (primary = 0 /\ alternate = 0) => data.doc.totals.sgst = <<"0", ".", "0", "0">>

C6_Witness ==
    /\ Extracted
    /\ FirstLedger("LEDGERNAME", <<"S", "G", "S", "T">>) = 0
    /\ FirstLedger("LEDGERNAME", <<"S", "G", "S", "T", "/", "U", "T", "G", "S", "T">>) # 0
    /\ data.doc.totals.sgst = <<"2", ".", "5", "0">>

(***************************************************************************)
(* C7.  A source DATE of the form YYYYMMDD gives the date DD-MM-YYYY of    *)
(* the same digits ("20250709" gives "09-07-2025"); an empty or absent     *)
(* DATE gives the empty text.                                              *)
(***************************************************************************)
C7_DateTransform ==
    Extracted =>
        LET d == trim(textContentOf("DATE", SourceVoucher))
        IN /\ (Len(d) = 8 /\ \A i \in 1..8 : IsDigit(d[i])) =>
                  data.doc.order.date =
                      <<d[7], d[8], "-", d[5], d[6], "-", d[1], d[2], d[3], d[4]>>
           /\ d = <<"2", "0", "2", "5", "0", "7", "0", "9">> => data.doc.order.date = <<"0", "9", "-", "0", "7", "-", "2", "0", "2", "5">>
           /\ d = <<>> => data.doc.order.date = <<>>

C7_Witness ==
    /\ Extracted
    /\ trim(textContentOf("DATE", SourceVoucher)) = <<"2", "0", "2", "5", "0", "7", "0", "9">>
    /\ data.doc.order.date = <<"0", "9", "-", "0", "7", "-", "2", "0", "2", "5">>

\* the other case of C7: no DATE element, the date is empty
C7_EmptyReached ==
    /\ Extracted
    /\ getAll("DATE", SourceVoucher) = <<>>
    /\ data.doc.order.date = <<>>

(***************************************************************************)
(* C8, for the tax fields.  As claimed: in every returned document the     *)
(* totals cgst, sgst and igst are non-negative values written with         *)
(* exactly two decimal digits, also when the source ledger amounts are     *)
(* negative.                                                               *)
(***************************************************************************)
C8_TaxesNonNegative ==
    Extracted =>
        /\ NonNegTwoDecimals(data.doc.totals.cgst)
        /\ NonNegTwoDecimals(data.doc.totals.sgst)
        /\ NonNegTwoDecimals(data.doc.totals.igst)

\* the statement for every field it names: each item's qty, rate and amount
\* and each of the totals (the qty is a bare token such as "10" by design)
C8_EveryFieldTwoDecimals ==
    Extracted =>
        /\ \A i \in 1..Len(data.doc.items) :
               /\ NonNegTwoDecimals(data.doc.items[i].qty)
               /\ NonNegTwoDecimals(data.doc.items[i].rate)
               /\ NonNegTwoDecimals(data.doc.items[i].amount)
        /\ NonNegTwoDecimals(data.doc.totals.subtotal)
        /\ NonNegTwoDecimals(data.doc.totals.total)
        /\ C8_TaxesNonNegative

(***************************************************************************)
(* C9.  As claimed: the heading follows from the upper-cased voucher type  *)
(* by ordered substring tests, the first match winning: "SALES ORDER",     *)
(* then "MATERIAL OUT" or "DELIVERY" (MATERIAL CHALLAN), then "SALES"      *)
(* (SALES INVOICE), else DOCUMENT; it is always one of the four.           *)
(***************************************************************************)
C9_HeadingRule ==
    Extracted =>
        LET t == toUpperCase(trim(textContentOf("VOUCHERTYPENAME", SourceVoucher)))
        IN /\ data.doc.heading \in
                  {"SALES ORDER", "MATERIAL CHALLAN", "SALES INVOICE", "DOCUMENT"}
           /\ data.doc.heading =
                  CASE includes(t, <<"S", "A", "L", "E", "S", " ", "O", "R", "D", "E", "R">>) -> "SALES ORDER"
                    [] includes(t, <<"M", "A", "T", "E", "R", "I", "A", "L", " ", "O", "U", "T">>) \/ includes(t, <<"D", "E", "L", "I", "V", "E", "R", "Y">>)
                           -> "MATERIAL CHALLAN"
                    [] includes(t, <<"S", "A", "L", "E", "S">>) -> "SALES INVOICE"
                    [] OTHER -> "DOCUMENT"

(***************************************************************************)
(* C10.  The items are the entries of ALLINVENTORYENTRIES.LIST, then of    *)
(* INVENTORYENTRIESIN.LIST, then of INVENTORYENTRIESOUT.LIST, each group   *)
(* in document order: as many items as entries, each entry's item at its   *)
(* place, none dropped, repeated or moved.                                 *)
(***************************************************************************)
C10_ItemsInListOrder ==
    Extracted =>
        /\ Len(data.doc.items) = Len(SourceEntries)
        /\ \A k \in 1..Len(SourceEntries) :
               data.doc.items[Place(SourceEntries, k)].name =
                   trim(textContentOf("STOCKITEMNAME", SourceEntries[k]))

\* an outbound entry that precedes a generic entry in the document follows it
\* in the items
C10_Witness ==
    /\ Extracted
    /\ Len(SourceEntries) = 2
    /\ SourceEntries[1].tag = "INVENTORYENTRIESOUT.LIST"
    /\ SourceEntries[2].tag = "ALLINVENTORYENTRIES.LIST"
    /\ data.doc.items[1].name = <<"P", "e", "n">>
    /\ data.doc.items[2].name = <<"C", "a", "p">>

(***************************************************************************)
(* The printer encoder, generateEscPosCommands.                            *)
(*                                                                         *)
(* The repository holds two copies of it, src/unnamed/part_001 and         *)
(* src/src/generateEscPosCommands.js; `version` says which one runs.  A    *)
(* command list is a sequence of bytes.  A document field that is absent   *)
(* (undefined) and one that is the empty text are both falsy; field reads  *)
(* either as the empty text.                                               *)
(***************************************************************************)
ESC == 27

GS == 29

LF == 10

\* the printable ASCII characters from 0x20 to 0x5F
AsciiChars ==
    <<" ", "!", "\"", "#", "$", "%", "&", "'", "(", ")", "*", "+", ",", "-", ".", "/",
      "0", "1", "2", "3", "4", "5", "6", "7", "8", "9", ":", ";", "<", "=", ">", "?",
      "@", "A", "B", "C", "D", "E", "F", "G", "H", "I", "J", "K", "L", "M", "N", "O",
      "P", "Q", "R", "S", "T", "U", "V", "W", "X", "Y", "Z", "[", "\\", "]", "^", "_">>

\* the printable ASCII characters from 0x61 to 0x7E
AsciiLowChars ==
    <<"a", "b", "c", "d", "e", "f", "g", "h", "i", "j", "k", "l", "m", "n", "o",
      "p", "q", "r", "s", "t", "u", "v", "w", "x", "y", "z", "{", "|", "}", "~">>

\* the rupee sign, written here as one character of its own
Rupee == "U+20B9"

\* the UTF-8 bytes of one character: ASCII, the line feed, and the rupee sign
Utf8 ==
    [c \in {AsciiChars[i] : i \in 1..64} \cup {AsciiLowChars[i] : i \in 1..30}
           \cup {"\n", Rupee} |->
        IF c = "\n" THEN <<10>>
        ELSE IF c = Rupee THEN <<226, 130, 185>>
        ELSE IF \E i \in 1..64 : AsciiChars[i] = c
        THEN <<31 + (CHOOSE i \in 1..64 : AsciiChars[i] = c)>>
        ELSE <<96 + (CHOOSE i \in 1..30 : AsciiLowChars[i] = c)>>]

RECURSIVE Flatten(_)
\* the concatenation of a sequence of sequences
Flatten(ss) == IF ss = <<>> THEN <<>> ELSE Head(ss) \o Flatten(Tail(ss))

\* text.replace: every rupee sign becomes "Rs. "
replaceRupee(text) ==
    Flatten([i \in 1..Len(text) |-> IF text[i] = Rupee THEN <<"R", "s", ".", " ">> ELSE <<text[i]>>])

\* encodeText: the rupee sign replaced, then TextEncoder().encode
encodeText(text) ==
    LET processedText == replaceRupee(text)
    IN Flatten([i \in 1..Len(processedText) |-> Utf8[processedText[i]]])

\* String.prototype.repeat
repeat(s, n) == Flatten([i \in 1..n |-> s])

\* String.prototype.padEnd with spaces
padEnd(s, n) == s \o [i \in 1..(n - Len(s)) |-> " "]

\* String.prototype.padStart with spaces
padStart(s, n) == [i \in 1..(n - Len(s)) |-> " "] \o s

\* String.prototype.substring(a, b), 0 <= a <= b
substring(s, a, b) == SubSeq(s, Min(a, Len(s)) + 1, Min(b, Len(s)))

\* String.prototype.substring(a)
substringFrom(s, a) == SubSeq(s, Min(a, Len(s)) + 1, Len(s))

RECURSIVE splitLines(_)
\* String.prototype.split('\n')
splitLines(s) ==
    IF \A i \in 1..Len(s) : s[i] # "\n" THEN <<s>>
    ELSE LET k == CHOOSE i \in 1..Len(s) : s[i] = "\n" /\ \A j \in 1..(i - 1) : s[j] # "\n"
         IN <<SubSeq(s, 1, k - 1)>> \o splitLines(SubSeq(s, k + 1, Len(s)))

\* o.k, the empty text when the property is absent
field(o, k) == IF k \in DOMAIN o THEN o[k] ELSE <<>>

\* the heading, a text
headingText(xmlData) ==
    LET h == xmlData.heading
    IN CASE h = "SALES ORDER" -> <<"S", "A", "L", "E", "S", " ", "O", "R", "D", "E", "R">>
         [] h = "MATERIAL CHALLAN" -> <<"M", "A", "T", "E", "R", "I", "A", "L", " ", "C", "H", "A", "L", "L", "A", "N">>
         [] h = "SALES INVOICE" -> <<"S", "A", "L", "E", "S", " ", "I", "N", "V", "O", "I", "C", "E">>
         [] h = "DOCUMENT" -> <<"D", "O", "C", "U", "M", "E", "N", "T">>
         [] OTHER -> <<>>

\* setAlignment: ESC a n
setAlignment(alignment) ==
    <<ESC, 97, IF alignment = "center" THEN 1 ELSE IF alignment = "right" THEN 2 ELSE 0>>

\* setBold: ESC E n
setBold(enable) == <<ESC, 69, IF enable THEN 1 ELSE 0>>

\* setDoubleSize: ESC ! n
setDoubleSize(enable) == <<ESC, 33, IF enable THEN 48 ELSE 0>>

\* printLine: the text, then a line feed
printLine(text) == encodeText(text) \o <<LF>>

\* printSeparator: char.repeat(width), as a line
printSeparator(char, width) == printLine(repeat(char, width))

\* a sequence of texts, each printed as a line
printLines(texts) == Flatten([i \in 1..Len(texts) |-> printLine(texts[i])])

\* settings.lineSeparator || '-'
separatorChar(settings) ==
    IF settings.lineSeparator # <<>> THEN settings.lineSeparator ELSE <<"-">>

\* the widths of the receipt and of its columns, in each copy
TOTAL_RECEIPT_WIDTH(v) == IF v = "part_001" THEN 42 ELSE 3 + 20 + 10 + 8 + 3

SNO_COL_WIDTH == 3

ITEM_NAME_COL_WIDTH(v) == IF v = "part_001" THEN 18 ELSE 20

QTY_RATE_DISPLAY_MAX_LENGTH(v) == IF v = "part_001" THEN 15 ELSE 10

AMOUNT_COL_WIDTH == 8

\* the opening of the logo block, up to the await of printImage
logoOpening == setAlignment("center")

\* the rest of the logo block, once printImage has resolved
logoClosing(logoCommands) == logoCommands \o printLine(<<>>)

\* 1. Company Header
companyHeader(v, xmlData, settings) ==
    LET company == xmlData.company
    IN setAlignment(settings.headerAlignment) \o setBold(TRUE) \o setDoubleSize(TRUE)
       \o (IF v = "part_001"
           THEN (IF field(company, "name") # <<>> THEN printLine(company.name) ELSE <<>>)
                \o setDoubleSize(FALSE) \o setBold(FALSE)
                \o (IF field(company, "address") # <<>>
                    THEN printLines(splitLines(company.address)) ELSE <<>>)
                \o (IF field(company, "phone") # <<>> THEN printLine(company.phone) ELSE <<>>)
                \o (IF field(company, "gstin") # <<>>
                    THEN printLine(<<"G", "S", "T", "I", "N", ":", " ">> \o company.gstin) ELSE <<>>)
           ELSE printLine(IF field(company, "name") # <<>> THEN company.name
                          ELSE <<"Y", "O", "U", "R", " ", "C", "O", "M", "P", "A", "N", "Y", " ", "N", "A", "M", "E">>)
                \o setDoubleSize(FALSE) \o setBold(FALSE)
                \o printLine(IF field(company, "address") # <<>> THEN company.address
                             ELSE <<"Y", "o", "u", "r", " ", "C", "o", "m", "p", "a", "n", "y", " ", "A", "d", "d", "r", "e", "s", "s">>)
                \o printLine(field(company, "phone")))
       \o printLine(<<>>)

\* 2. Invoice Type
invoiceType(v, xmlData) ==
    IF v = "part_001"
    THEN setAlignment("center") \o setBold(TRUE)
         \o (IF headingText(xmlData) # <<>> THEN printLine(headingText(xmlData)) ELSE <<>>)
         \o setBold(FALSE) \o printLine(<<>>)
    ELSE setBold(TRUE)
         \o printLine(IF headingText(xmlData) # <<>> THEN headingText(xmlData)
                      ELSE <<"D", "O", "C", "U", "M", "E", "N", "T">>)
         \o setBold(FALSE) \o printLine(<<>>)

\* 3. Order Details
orderDetails(v, xmlData, settings) ==
    LET order == xmlData.order
    IN IF v = "part_001"
       THEN LET labelBold == settings.sectionStyles.orderInfo.labelBold
                valueBold == settings.sectionStyles.orderInfo.valueBold
            IN setAlignment("left")
               \o setBold(labelBold) \o encodeText(<<"V", "o", "u", "c", "h", "e", "r", " ", "N", "o", ":", " ">>)
               \o setBold(valueBold) \o printLine(field(order, "number"))
               \o setBold(labelBold) \o encodeText(<<"D", "a", "t", "e", ":", " ">>)
               \o setBold(valueBold) \o printLine(field(order, "date"))
               \o setBold(labelBold) \o encodeText(<<"E", "n", "t", "e", "r", "e", "d", " ", "B", "y", ":", " ">>)
               \o setBold(valueBold) \o printLine(field(order, "user"))
               \o setBold(FALSE) \o printLine(<<>>)
       ELSE LET orNA(t) == IF t # <<>> THEN t ELSE <<"N", "/", "A">>
            IN setAlignment("left")
               \o printLine(<<"V", "o", "u", "c", "h", "e", "r", " ", "N", "o", ":", " ">> \o orNA(field(order, "number")))
               \o printLine(<<"D", "a", "t", "e", ":", " ">> \o orNA(field(order, "date")))
               \o printLine(<<"E", "n", "t", "e", "r", "e", "d", " ", "B", "y", ":", " ">> \o orNA(field(order, "user")))
               \o printLine(<<>>)

\* 4. Party Details
partyDetails(xmlData) ==
    LET party == xmlData.party
    IN IF field(party, "name") # <<>>
       THEN setBold(TRUE) \o printLine(<<"P", "A", "R", "T", "Y", " ", "D", "E", "T", "A", "I", "L", "S", ":">>) \o setBold(FALSE)
            \o printLine(party.name)
            \o (IF field(party, "address") # <<>>
                THEN printLines(splitLines(party.address)) ELSE <<>>)
            \o (IF field(party, "gstin") # <<>>
                THEN printLine(<<"G", "S", "T", "I", "N", ":", " ">> \o party.gstin) ELSE <<>>)
            \o printLine(<<>>)
       ELSE <<>>

\* 5. Items Table Header
itemsTableHeader(v, settings) ==
    LET headerLine1 == padEnd(<<"S", ".", "N", "o">>, SNO_COL_WIDTH) \o <<" ">>
                       \o padEnd(<<"I", "t", "e", "m", " ", "N", "a", "m", "e">>, ITEM_NAME_COL_WIDTH(v))
        headerLine2 == padEnd(<<"Q", "t", "y", "/", "R", "a", "t", "e">>, QTY_RATE_DISPLAY_MAX_LENGTH(v)) \o <<" ">>
                       \o padStart(<<"A", "m", "o", "u", "n", "t">>, AMOUNT_COL_WIDTH)
    IN printSeparator(separatorChar(settings), TOTAL_RECEIPT_WIDTH(v))
       \o setAlignment("left") \o setBold(TRUE)
       \o (IF v = "part_001"
           THEN printLine(headerLine1) \o printLine(<<" ", " ", " ">> \o trim(headerLine2))
           ELSE printLine(headerLine1 \o <<" ">> \o headerLine2))
       \o setBold(FALSE)
       \o printSeparator(separatorChar(settings), TOTAL_RECEIPT_WIDTH(v))

Max(a, b) == IF a > b THEN a ELSE b

RECURSIVE chunks(_, _)
\* the loop `while (rest.length > 0) { line = rest.substring(0, w); ...;
\* rest = rest.substring(w) }`: the lines it prints, in order
chunks(rest, w) ==
    IF Len(rest) > 0
    THEN <<substring(rest, 0, w)>> \o chunks(substringFrom(rest, w), w)
    ELSE <<>>

\* String(item.sNo): the digits of the number, "undefined" when the item has none
sNoText(item) ==
    IF "sNo" \in DOMAIN item THEN NatDigits(item.sNo) ELSE <<"u", "n", "d", "e", "f", "i", "n", "e", "d">>

\* variant: the name is cut at the width of its column, with no other line
itemNameLines_NoWrap(v, item) ==
    <<padEnd(sNoText(item), SNO_COL_WIDTH) \o <<" ">>
      \o substring(item.name, 0, ITEM_NAME_COL_WIDTH(v))>>

\* the lines that carry the name of an item: the first with the serial
\* number, the others indented
itemNameLines(v, item) ==
    LET sNo == padEnd(sNoText(item), SNO_COL_WIDTH)
        itemName == item.name
        currentItemNameLine == substring(itemName, 0, ITEM_NAME_COL_WIDTH(v))
        indentForWrappedName == repeat(<<" ">>, SNO_COL_WIDTH + 1)
        wrapped == IF Len(itemName) > ITEM_NAME_COL_WIDTH(v)
                   THEN chunks(substringFrom(itemName, ITEM_NAME_COL_WIDTH(v)),
                               ITEM_NAME_COL_WIDTH(v))
                   ELSE <<>>
    IN <<sNo \o <<" ">> \o currentItemNameLine>>
       \o [i \in 1..Len(wrapped) |-> indentForWrappedName \o wrapped[i]]

\* the line with quantity, rate and amount of an item
itemSummaryLine(v, item) ==
    IF v = "part_001"
    THEN LET qty == toFixed2(parseFloat(item.qty))
             rate == toFixed2(parseFloat(item.rate))
             amount == toFixed2(parseFloat(item.amount))
             qtyRateAmountLine == <<"Q", "t", "y", ":", " ">> \o qty \o <<" ", "@", " ", "R", "s", ".", " ">> \o rate
                                  \o <<" ", "=", " ", "R", "s", ".", " ">> \o amount
             paddingNeeded == Max(0, TOTAL_RECEIPT_WIDTH(v) - Len(qtyRateAmountLine))
         IN repeat(<<" ">>, paddingNeeded) \o qtyRateAmountLine
    ELSE LET itemDetailIndent == repeat(<<" ">>, SNO_COL_WIDTH + 1)
             qtyRatePart == item.qty \o <<" ", "x", " ">> \o item.rate
             availableSpaceAfterIndent == TOTAL_RECEIPT_WIDTH(v) - Len(itemDetailIndent)
             qtyRateDisplay == substring(padEnd(qtyRatePart, QTY_RATE_DISPLAY_MAX_LENGTH(v)),
                                         0, QTY_RATE_DISPLAY_MAX_LENGTH(v))
             amountPadding == availableSpaceAfterIndent - QTY_RATE_DISPLAY_MAX_LENGTH(v)
                              - 1 - Len(item.amount)
             amountPadded == repeat(<<" ">>, Max(0, amountPadding)) \o item.amount
         IN itemDetailIndent \o qtyRateDisplay \o <<" ">> \o amountPadded

\* the block of one item: name lines, summary line, an empty line
itemBlock(v, item) ==
    printLines(itemNameLines(v, item)) \o printLine(itemSummaryLine(v, item))
    \o printLine(<<>>)

\* 6. Items List
itemsList(v, xmlData) ==
    LET items == field(xmlData, "items")
    IN (IF Len(items) > 0
        THEN Flatten([i \in 1..Len(items) |-> itemBlock(v, items[i])])
        ELSE printLine(<<"N", "o", " ", "i", "t", "e", "m", "s", " ", "f", "o", "u", "n", "d", ".">>))
       \o printLine(<<>>)

\* parseFloat(text) > 0
positive(text) ==
    LET x == parseFloat(text) IN ~x.nan /\ ~x.neg /\ x.m > 0

\* the tax lines of the totals: one for each tax above zero
taxLines(xmlData) ==
    LET totals == xmlData.totals
    IN (IF positive(field(totals, "cgst")) THEN printLine(<<"C", "G", "S", "T", ":", " ">> \o totals.cgst) ELSE <<>>)
       \o (IF positive(field(totals, "sgst")) THEN printLine(<<"S", "G", "S", "T", ":", " ">> \o totals.sgst) ELSE <<>>)
       \o (IF positive(field(totals, "igst")) THEN printLine(<<"I", "G", "S", "T", ":", " ">> \o totals.igst) ELSE <<>>)

\* x || '0.00'
orZero(t) == IF t # <<>> THEN t ELSE <<"0", ".", "0", "0">>

\* the subtotal line
subTotalLine(xmlData) == printLine(<<"S", "u", "b", " ", "T", "o", "t", "a", "l", ":", " ">> \o orZero(field(xmlData.totals, "subtotal")))

\* the total line, in bold (and double size in generateEscPosCommands.js)
totalLine(v, xmlData) ==
    IF v = "part_001"
    THEN setBold(TRUE)
         \o printLine(<<"T", "O", "T", "A", "L", ":", " ", "R", "s", ".", " ">> \o orZero(field(xmlData.totals, "total")))
         \o setBold(FALSE)
    ELSE setBold(TRUE) \o setDoubleSize(TRUE)
         \o printLine(<<"G", "R", "A", "N", "D", " ", "T", "O", "T", "A", "L", ":", " ", "R", "s", ".", " ">> \o orZero(field(xmlData.totals, "total")))
         \o setDoubleSize(FALSE) \o setBold(FALSE)

\* 7. Totals
totalsBlock(v, xmlData, settings) ==
    printSeparator(separatorChar(settings), TOTAL_RECEIPT_WIDTH(v))
    \o setAlignment("right")
    \o subTotalLine(xmlData) \o taxLines(xmlData) \o totalLine(v, xmlData)
    \o printLine(<<>>)

\* 8. Amount in Words
amountInWords(v, xmlData) ==
    LET words == field(xmlData, "amountInWords")
    IN IF v = "part_001" /\ words = <<>> THEN <<>>
       ELSE setAlignment("left") \o printLine(<<"A", "m", "o", "u", "n", "t", " ", "i", "n", " ", "W", "o", "r", "d", "s", ":">>) \o setBold(TRUE)
            \o printLine(IF words # <<>> THEN words ELSE <<"Z", "e", "r", "o", " ", "O", "n", "l", "y">>)
            \o setBold(FALSE) \o printLine(<<>>)

\* 9. Narration
narrationBlock(v, xmlData, settings) ==
    LET currentNarration == field(xmlData, "narration")
    IN IF currentNarration # <<>>
       THEN printSeparator(separatorChar(settings), TOTAL_RECEIPT_WIDTH(v))
            \o setAlignment("left") \o setBold(TRUE) \o printLine(<<"N", "a", "r", "r", "a", "t", "i", "o", "n", ":">>)
            \o setBold(FALSE)
            \o printLines(chunks(currentNarration, TOTAL_RECEIPT_WIDTH(v)))
            \o printLine(<<>>)
       ELSE <<>>

\* 10. Terms and Conditions
termsBlock(v, xmlData, settings) ==
    LET currentTerms == field(xmlData, "termsAndConditions")
    IN IF v = "part_001" /\ currentTerms = <<>> THEN <<>>
       ELSE printSeparator(separatorChar(settings), TOTAL_RECEIPT_WIDTH(v))
            \o setAlignment("center") \o printLine(<<"T", "e", "r", "m", "s", " ", "&", " ", "C", "o", "n", "d", "i", "t", "i", "o", "n", "s", ":">>)
            \o setAlignment("left")
            \o (IF v = "part_001"
                THEN printLines(chunks(currentTerms, TOTAL_RECEIPT_WIDTH(v)))
                ELSE printLine(<<"G", "o", "o", "d", "s", " ", "o", "n", "c", "e", " ", "s", "o", "l", "d", " ", "c", "a", "n", "n", "o", "t", " ", "b", "e", " ", "r", "e", "t", "u", "r", "n", "e", "d", " ", "o", "r", " ", "e", "x", "c", "h", "a", "n", "g", "e", "d", ".">>))
            \o printLine(<<>>)

\* 11. Authorized Signatory
signatoryBlock(v, xmlData) ==
    LET signatory == field(xmlData, "authorizedSignatory")
    IN IF v = "part_001" /\ signatory = <<>> THEN <<>>
       ELSE setAlignment("right") \o printLine(<<>>) \o printLine(<<>>)
            \o printLine(IF signatory # <<>> THEN signatory ELSE <<"A", "u", "t", "h", "o", "r", "i", "z", "e", "d", " ", "S", "i", "g", "n", "a", "t", "o", "r", "y">>)
            \o printLine(<<>>)

\* commands.push(LF, LF, LF, LF, LF)
trailingFeed == <<LF, LF, LF, LF, LF>>

\* commands.push(GS, 0x56, 0x00)
fullCut == <<GS, 86, 0>>

\* commands.push(ESC, 0x40)
reset == <<ESC, 64>>

\* whether the statements after the logo block throw: part_001 reads
\* settings.sectionStyles.orderInfo.labelBold, a TypeError when the settings
\* hold no sectionStyles or no orderInfo in it
throwsTypeError(v, settings) ==
    /\ v = "part_001"
    /\ \/ "sectionStyles" \notin DOMAIN settings
       \/ "orderInfo" \notin DOMAIN settings.sectionStyles

\* variant: the totals come before the items
afterLogo_TotalsFirst(v, xmlData, settings) ==
    companyHeader(v, xmlData, settings) \o invoiceType(v, xmlData)
    \o orderDetails(v, xmlData, settings) \o partyDetails(xmlData)
    \o itemsTableHeader(v, settings) \o totalsBlock(v, xmlData, settings)
    \o itemsList(v, xmlData)
    \o amountInWords(v, xmlData) \o narrationBlock(v, xmlData, settings)
    \o termsBlock(v, xmlData, settings) \o signatoryBlock(v, xmlData)
    \o trailingFeed \o fullCut

\* what the statements after the logo block push, from the company header to
\* the cut
afterLogo(v, xmlData, settings) ==
    companyHeader(v, xmlData, settings) \o invoiceType(v, xmlData)
    \o orderDetails(v, xmlData, settings) \o partyDetails(xmlData)
    \o itemsTableHeader(v, settings) \o itemsList(v, xmlData)
    \o totalsBlock(v, xmlData, settings)
    \o amountInWords(v, xmlData) \o narrationBlock(v, xmlData, settings)
    \o termsBlock(v, xmlData, settings) \o signatoryBlock(v, xmlData)
    \o trailingFeed \o fullCut

(***************************************************************************)
(* printImage.                                                             *)
(*                                                                         *)
(* An image is [width, height, data]: its natural size, and the pixels the *)
(* canvas holds once drawImage has scaled it to the target width, row by   *)
(* row, each pixel <<r, g, b>> (the alpha byte is not read).  The canvas   *)
(* of an image too high to be written out is kept as [fill], the colour of *)
(* all its pixels, and its commands as a run: the header, the byte of      *)
(* every row and the number of the bytes.                                  *)
(***************************************************************************)
\* the colours whose luminance is exactly 128 and for which the double sum
\* (0.299 * r + 0.587 * g) + 0.114 * b is 127.99999999999999
RoundsBelow128 ==
    {<<8, 200, 72>>, <<12, 190, 113>>, <<19, 201, 38>>, <<23, 191, 79>>, <<24, 160, 236>>,
     <<34, 192, 45>>, <<38, 182, 86>>, <<42, 172, 127>>, <<49, 183, 52>>, <<53, 173, 93>>,
     <<57, 163, 134>>, <<64, 174, 59>>, <<72, 154, 141>>, <<75, 175, 25>>, <<79, 165, 66>>,
     <<87, 145, 148>>, <<90, 166, 32>>, <<94, 156, 73>>, <<98, 146, 114>>, <<102, 136, 155>>,
     <<105, 157, 39>>, <<113, 137, 121>>, <<116, 158, 5>>, <<117, 127, 162>>, <<120, 148, 46>>,
     <<128, 128, 128>>, <<131, 149, 12>>, <<132, 118, 169>>, <<135, 139, 53>>, <<143, 119, 135>>,
     <<146, 140, 19>>, <<154, 120, 101>>, <<158, 110, 142>>, <<161, 131, 26>>, <<169, 111, 108>>,
     <<176, 122, 33>>, <<177, 91, 190>>, <<184, 102, 115>>, <<195, 103, 81>>, <<199, 93, 122>>,
     <<202, 114, 6>>, <<210, 94, 88>>, <<225, 85, 95>>, <<240, 76, 102>>, <<251, 77, 68>>,
     <<255, 67, 109>>}

\* the luminance of a pixel in thousandths, exactly
luminance1000(p) == 299 * p[1] + 587 * p[2] + 114 * p[3]

\* luminance < 128, for the double the code computes: the exact comparison,
\* but for the colours whose sum rounds below 128
isInk(p) == luminance1000(p) < 128000 \/ p \in RoundsBelow128

\* Math.round(targetWidthPx / (img.width / img.height))
displayHeightOf(img, targetWidthPx) ==
    (2 * targetWidthPx * img.height + img.width) \div (2 * img.width)

\* Math.ceil(displayWidth / 8)
bytesPerRowOf(displayWidth) == (displayWidth + 7) \div 8

\* 1 << bitPosition
Pow2(n) == IF n = 0 THEN 1 ELSE IF n = 1 THEN 2 ELSE IF n = 2 THEN 4
           ELSE IF n = 3 THEN 8 ELSE IF n = 4 THEN 16 ELSE IF n = 5 THEN 32
           ELSE IF n = 6 THEN 64 ELSE 128

RECURSIVE SumBits(_, _, _, _)
\* the byte the loops leave at (y, bytePosition): the bit 7 - (x % 8) is set
\* for each ink pixel x of the row that falls in the byte
SumBits(pixels, displayWidth, first, j) ==
    IF j > 7 THEN 0
    ELSE (IF 8 * first[2] + j < displayWidth
             /\ isInk(pixels[first[1] * displayWidth + 8 * first[2] + j + 1])
          THEN Pow2(7 - j) ELSE 0)
         + SumBits(pixels, displayWidth, first, j + 1)

\* bitmapData, once the two loops are over
bitmapDataOf(pixels, displayWidth, displayHeight) ==
    LET bytesPerRow == bytesPerRowOf(displayWidth)
    IN [k \in 1..(bytesPerRow * displayHeight) |->
           SumBits(pixels, displayWidth,
                   <<(k - 1) \div bytesPerRow, (k - 1) % bytesPerRow>>, 0)]

\* GS v 0, m, then bytesPerRow & 0xFF, (bytesPerRow >> 8) & 0xFF,
\* displayHeight & 0xFF, (displayHeight >> 8) & 0xFF
rasterHeader(bytesPerRow, displayHeight) ==
    <<GS, 118, 48, 0,
      bytesPerRow % 256, (bytesPerRow \div 256) % 256,
      displayHeight % 256, (displayHeight \div 256) % 256>>

\* img.onload: GS v 0, m, xL, xH, yL, yH, then the bitmap
onloadCommands(img, targetWidthPx) ==
    LET displayWidth == targetWidthPx
        displayHeight == displayHeightOf(img, targetWidthPx)
        bytesPerRow == bytesPerRowOf(displayWidth)
    IN rasterHeader(bytesPerRow, displayHeight)
       \o bitmapDataOf(img.data, displayWidth, displayHeight)

\* whether the canvas of the image is kept as the colour that fills it
inOneColour(img) == "fill" \in DOMAIN img

\* img.onload for an image one pixel wide in one colour: the header, and
\* bytesPerRow * displayHeight bytes, each the byte of a row of one pixel
onloadRun(img, targetWidthPx) ==
    LET displayHeight == displayHeightOf(img, targetWidthPx)
        bytesPerRow == bytesPerRowOf(targetWidthPx)
    IN [kind |-> "run", header |-> rasterHeader(bytesPerRow, displayHeight),
        byte |-> SumBits(<<img.fill>>, targetWidthPx, <<0, 0>>, 0),
        length |-> bytesPerRow * displayHeight]

\* img.onerror: resolve(new Uint8Array())
onerrorCommands == <<>>

\* ctx.getImageData(0, 0, canvas.width, canvas.height) throws an
\* IndexSizeError when the canvas has no row: the onload handler ends there
\* and the promise of printImage is never resolved
onloadThrows(outcome, targetWidthPx) ==
    outcome.kind = "load" /\ displayHeightOf(outcome, targetWidthPx) = 0

\* what printImage resolves with, for a load that ended in onerror or in an
\* onload that ran to its end
printImage(outcome, targetWidthPx) ==
    IF outcome.kind = "error" THEN onerrorCommands
    ELSE onloadCommands(outcome, targetWidthPx)

(***************************************************************************)
(* generateEscPosCommands as a whole.                                      *)
(*                                                                         *)
(* xmlData is the null or the document that parseTallyXML returned.  The   *)
(* function is async with one await, that of printImage, reached only when *)
(* the settings hold a logo URL.  A call is [pc, xmlData, settings,        *)
(* commands, outcome, overlapped]: where it stands, its arguments, its     *)
(* command list, how the load of its image ended, and whether it started   *)
(* while another call was suspended at its await.                          *)
(***************************************************************************)
\* variant: the command list of the module, shared by the calls
freshCommands_ModuleLevel(cs) ==
    Flatten([c \in 1..Len(cs) |-> cs[c].commands])

\* const commands = []: a new list for each call, whatever the other calls hold
freshCommands(cs) == <<>>

NoOutcome == [kind |-> "none"]

\* a call not started yet
IdleCall(xmlData, settings) ==
    [pc |-> "idle", xmlData |-> xmlData, settings |-> settings,
     commands |-> <<>>, outcome |-> NoOutcome, overlapped |-> FALSE]

\* the statements after the await (or after the skipped logo block), to the
\* return or to the TypeError that rejects the promise
runToEnd(v, call, logoPart) ==
    IF throwsTypeError(v, call.settings)
    THEN [call EXCEPT !.pc = "rejected",
                      !.commands = @ \o logoPart
                                   \o companyHeader(v, call.xmlData.doc, call.settings)
                                   \o invoiceType(v, call.xmlData.doc)
                                   \o setAlignment("left")]
    ELSE [call EXCEPT !.pc = "resolved",
                      !.commands = @ \o logoPart
                                   \o afterLogo(v, call.xmlData.doc, call.settings)]

\* whether a call is suspended at its await
someAwaiting(cs) == \E d \in DOMAIN cs : cs[d].pc = "awaiting"

\* variant: the command list is the one of the call that is suspended
started_SharedList(v, cs, c) ==
    LET call == [cs[c] EXCEPT !.overlapped = someAwaiting(cs)]
        shared == IF someAwaiting(cs)
                  THEN cs[CHOOSE d \in DOMAIN cs : cs[d].pc = "awaiting"].commands
                  ELSE freshCommands(cs)
    IN IF call.xmlData.kind = "null"
       THEN [call EXCEPT !.pc = "resolved"]
       ELSE LET opened == [call EXCEPT !.commands = shared \o reset]
            IN IF call.settings.logoUrl # <<>>
               THEN [opened EXCEPT !.pc = "awaiting", !.commands = @ \o logoOpening]
               ELSE runToEnd(v, opened, <<>>)

\* the call, from its first statement to the await or to its end
started(v, cs, c) ==
    LET call == [cs[c] EXCEPT !.overlapped = someAwaiting(cs)]
    IN IF call.xmlData.kind = "null"
       THEN [call EXCEPT !.pc = "resolved"]
       ELSE LET opened == [call EXCEPT !.commands = freshCommands(cs) \o reset]
            IN IF call.settings.logoUrl # <<>>
               THEN [opened EXCEPT !.pc = "awaiting", !.commands = @ \o logoOpening]
               ELSE runToEnd(v, opened, <<>>)

\* the call, from the resolution of printImage to its end; when the onload
\* handler throws, printImage never resolves and the call stays suspended
resumed(v, call, outcome) ==
    IF onloadThrows(outcome, 384)
    THEN [call EXCEPT !.pc = "hung", !.outcome = outcome]
    ELSE runToEnd(v, [call EXCEPT !.outcome = outcome],
                  logoClosing(printImage(outcome, 384)))

\* the stream of a call that runs alone, under the given outcome of the load
generateEscPosCommands(v, xmlData, settings, outcome) ==
    LET cs == <<IdleCall(xmlData, settings)>>
        first == started(v, cs, 1)
    IN IF first.pc = "awaiting" THEN resumed(v, first, outcome) ELSE first

(***************************************************************************)
(* The inputs of the encoder.                                              *)
(***************************************************************************)
\* documents that parseTallyXML returns: the fixture voucher, and a voucher
\* with no item, a negative IGST ledger and an SGST ledger
ExtractedDocs ==
    {parseTallyXML("part_002", VoucherText(FixtureHeader, <<PenEntry>>, <<PartyEntry>>)),
     parseTallyXML("part_002",
         VoucherText(FixtureHeader, <<>>,
             <<CHOOSE e \in LedgerPool : get("LEDGERNAME", e) = <<"I", "G", "S", "T">>,
               CHOOSE e \in LedgerPool : get("LEDGERNAME", e) = <<"S", "G", "S", "T">>
                                         /\ get("AMOUNT", e) = <<"4", ".", "9", "5">>>>))}

\* a document with every field of the Order Document: serial numbers, names
\* longer than the name column, an address of two lines, a rupee sign
FullDoc ==
    [kind |-> "doc",
     doc |-> [heading |-> "SALES ORDER",
              company |-> [name |-> <<"A", "c", "m", "e", " ", "T", "r", "a", "d", "e", "r", "s">>, address |-> <<"1", "2", " ", "M", "a", "r", "k", "e", "t", " ", "R", "o", "a", "d", "\n", "P", "u", "n", "e">>,
                           phone |-> <<"0", "2", "0", "-", "5", "5", "5">>, gstin |-> <<"2", "7", "A", "A", "A", "C", "A", "1", "1", "1", "1", "A", "1", "Z", "5">>],
              order |-> [number |-> <<"S", "O", "/", "1", "7">>, date |-> <<"0", "9", "-", "0", "7", "-", "2", "0", "2", "5">>, user |-> <<"a", "s", "h", "a">>],
              party |-> [name |-> <<"R", "a", "v", "i", " ", "S", "t", "o", "r", "e", "s">>, address |-> <<"4", " ", "H", "i", "l", "l", " ", "S", "t", "r", "e", "e", "t", "\n", "N", "a", "s", "h", "i", "k">>,
                         gstin |-> <<"2", "7", "B", "B", "B", "C", "B", "2", "2", "2", "2", "B", "1", "Z", "3">>],
              items |-> <<[sNo |-> 1, name |-> <<"S", "t", "a", "i", "n", "l", "e", "s", "s", " ", "s", "t", "e", "e", "l", " ", "w", "a", "t", "e", "r", " ", "b", "o", "t", "t", "l", "e", " ", "7", "5", "0", "m", "l", " ", "b", "l", "u", "e">>,
                           qty |-> <<"2">>, rate |-> <<"2", "5", "0", ".", "0", "0">>, amount |-> <<"5", "0", "0", ".", "0", "0">>],
                          [sNo |-> 2, name |-> <<"H", "e", "a", "v", "y", " ", "d", "u", "t", "y", " ", "e", "x", "t", "e", "n", "s", "i", "o", "n", " ", "c", "o", "r", "d", " ", "1", "0", "m", " ", "w", "h", "i", "t", "e", ",", " ", "3", " ", "p", "i", "n", "s">>,
                           qty |-> <<"1", "2", "0", "0", "0", "0">>, rate |-> <<"1", "2", "5", "0", "0", "0", ".", "5", "0">>, amount |-> <<"2", "0", "0", "0", "0", "0", "0", ".", "0", "0">>],
                          [sNo |-> 3, name |-> <<"P", "e", "n">>,
                           qty |-> <<"0">>, rate |-> <<"0", ".", "0", "0">>, amount |-> <<"0", ".", "0", "0">>]>>,
              totals |-> [subtotal |-> <<"2", "0", "0", "0", "5", "0", "0", ".", "0", "0">>, igst |-> <<"0", ".", "0", "0">>, cgst |-> <<"2", ".", "5", "0">>,
                          sgst |-> <<"2", ".", "5", "0">>, total |-> <<"2", "0", "0", "0", "5", "0", "5", ".", "0", "0">>],
              amountInWords |-> <<"T", "w", "e", "n", "t", "y", " ", "L", "a", "k", "h", " ", "F", "i", "v", "e", " ", "H", "u", "n", "d", "r", "e", "d", " ", "F", "i", "v", "e", " ", "O", "n", "l", "y">>,
              narration |-> <<"P", "a", "i", "d", " ">> \o <<Rupee>>
                            \o <<"5", "0", "0", " ", "i", "n", " ", "a", "d", "v", "a", "n", "c", "e", ";", " ", "b", "a", "l", "a", "n", "c", "e", " ", "d", "u", "e", " ", "o", "n", " ", "d", "e", "l", "i", "v", "e", "r", "y", " ", "o", "f", " ", "t", "h", "e", " ", "g", "o", "o", "d", "s", " ", "a", "t", " ", "t", "h", "e", " ", "s", "h", "o", "p">>,
              termsAndConditions |-> <<"G", "o", "o", "d", "s", " ", "o", "n", "c", "e", " ", "s", "o", "l", "d", " ", "a", "r", "e", " ", "n", "o", "t", " ", "r", "e", "t", "u", "r", "n", "e", "d", ".", " ", "S", "u", "b", "j", "e", "c", "t", " ", "t", "o", " ", "l", "o", "c", "a", "l", " ", "j", "u", "r", "i", "s", "d", "i", "c", "t", "i", "o", "n", " ", "o", "n", "l", "y", ".">>,
              authorizedSignatory |-> <<"F", "o", "r", " ", "A", "c", "m", "e", " ", "T", "r", "a", "d", "e", "r", "s">>]]

\* a document with the least a document can hold: no items property, empty
\* texts, every tax zero
BareDoc ==
    [kind |-> "doc",
     doc |-> [heading |-> "DOCUMENT",
              company |-> [name |-> <<>>, gstin |-> <<>>],
              order |-> [number |-> <<>>, date |-> <<>>, user |-> <<>>],
              party |-> [name |-> <<>>, address |-> <<>>, gstin |-> <<>>],
              totals |-> [subtotal |-> <<"0", ".", "0", "0">>, igst |-> <<"0", ".", "0", "0">>, cgst |-> <<"0", ".", "0", "0">>,
                          sgst |-> <<"0", ".", "0", "0">>, total |-> <<"0", ".", "0", "0">>],
              narration |-> <<>>]]

EncoderDocs == ExtractedDocs \cup {FullDoc, BareDoc, Null}

\* useState({...}): the settings the application starts with
DefaultSettings ==
    [headerAlignment |-> "center", logoUrl |-> <<>>, lineSeparator |-> <<"-">>,
     sectionStyles |-> [orderInfo |-> [labelBold |-> FALSE, valueBold |-> TRUE]]]

\* settings edited in the controls
EditedSettings ==
    {[headerAlignment |-> "left", logoUrl |-> <<"l", "o", "g", "o", ".", "p", "n", "g">>, lineSeparator |-> <<"=">>,
      sectionStyles |-> [orderInfo |-> [labelBold |-> TRUE, valueBold |-> FALSE]]],
     [headerAlignment |-> "right", logoUrl |-> <<"l", "o", "g", "o", ".", "p", "n", "g">>, lineSeparator |-> <<>>,
      sectionStyles |-> [orderInfo |-> [labelBold |-> TRUE, valueBold |-> TRUE]]]}

\* setSettings(JSON.parse(saved)): the stored object replaces the settings as
\* it is; one stored before the section styles existed holds none
RestoredSettings ==
    {DefaultSettings,
     [headerAlignment |-> "center", logoUrl |-> <<>>, lineSeparator |-> <<"-">>],
     [headerAlignment |-> "left", logoUrl |-> <<"l", "o", "g", "o", ".", "p", "n", "g">>, lineSeparator |-> <<"-">>]}

EncoderSettings == {DefaultSettings} \cup EditedSettings \cup RestoredSettings

Black == <<0, 0, 0>>

White == <<255, 255, 255>>

\* the images a logo URL may load: 384 x 1 all black, 768 x 3 drawn on a
\* canvas of 384 x 2 in stripes, and 1000 x 1, whose canvas has no row
LogoImages ==
    {[kind |-> "load", width |-> 384, height |-> 1, data |-> [i \in 1..384 |-> Black]],
     [kind |-> "load", width |-> 768, height |-> 3,
      data |-> [i \in 1..768 |-> IF (i \div 4) % 2 = 0 THEN Black ELSE White]],
     [kind |-> "load", width |-> 1000, height |-> 1, data |-> <<>>]}

\* how the load of the image may end
Outcomes == LogoImages \cup {LoadError}

Versions == {"part_001", "generateEscPosCommands.js"}

\* the arguments of the second call when they are not those of the first
OtherCalls ==
    {IdleCall(FullDoc, CHOOSE s \in EditedSettings : s.headerAlignment = "left"),
     IdleCall(BareDoc, DefaultSettings)}

(***************************************************************************)
(* The encoder as a state machine: two calls of generateEscPosCommands,    *)
(* each with a document and settings of its own; a call that awaits its    *)
(* image goes on when the load ends, in onload or in onerror.              *)
(***************************************************************************)
Calls == {1, 2}

\* const data = parseTallyXML(content) has not run
ExtractorQuiet == build = "part_002" /\ xmlString = NotAString /\ data = Pending

InitEncode ==
    /\ version \in Versions
    /\ calls \in UNION {{<<IdleCall(d, s), second>> :
                              second \in {IdleCall(d, s)} \cup OtherCalls} :
                         d \in EncoderDocs, s \in EncoderSettings}
    /\ ExtractorQuiet
    /\ RasterQuiet
    /\ AppQuiet

\* generateEscPosCommands(xmlData, settings) is called
Generate(c) ==
    /\ calls[c].pc = "idle"
    /\ calls' = [calls EXCEPT ![c] = started(version, calls, c)]
    /\ UNCHANGED <<version, extractorVars, rasterVars, appVars>>

\* img.onload of the image of call c
ImgOnload(c, loaded) ==
    /\ calls[c].pc = "awaiting"
    /\ calls' = [calls EXCEPT ![c] = resumed(version, calls[c], loaded)]
    /\ UNCHANGED <<version, extractorVars, rasterVars, appVars>>

\* img.onerror of the image of call c
ImgOnerror(c) ==
    /\ calls[c].pc = "awaiting"
    /\ calls' = [calls EXCEPT ![c] = resumed(version, calls[c], LoadError)]
    /\ UNCHANGED <<version, extractorVars, rasterVars, appVars>>

NextEncode ==
    \/ \E c \in Calls : Generate(c)
    \/ \E c \in Calls, loaded \in LogoImages : ImgOnload(c, loaded)
    \/ \E c \in Calls : ImgOnerror(c)

SpecEncode == InitEncode /\ [][NextEncode]_vars

(***************************************************************************)
(* printImage as a state machine: an image is loaded for a target width,   *)
(* and the load ends in onload or in onerror.                              *)
(***************************************************************************)
Grey127 == <<127, 127, 127>>

Grey128 == <<128, 128, 128>>

\* luminance 128 exactly, and the double sum is 128 too
Teal128 == <<1, 189, 147>>

Red == <<255, 0, 0>>

Green == <<0, 255, 0>>

\* target width, natural width and natural height of the images drawn
RasterSizes ==
    {<<1, 1, 1>>, <<3, 3, 1>>, <<3, 2, 1>>, <<8, 8, 1>>, <<9, 9, 1>>, <<9, 18, 1>>,
     <<4, 2, 1>>, <<3, 9, 1>>}

\* the canvases of a size: every picture in black and white, and the canvas
\* filled with one colour
CanvasesOf(n) ==
    [1..n -> {Black, White}]
    \cup {[i \in 1..n |-> p] : p \in {Grey127, Grey128, Teal128, Red, Green}}

\* the greatest number that two bytes of the header carry
headerMax == 256 * 256 - 1

\* an image one pixel wide and headerMax + 1 pixels high, in one colour: its
\* canvas is kept as the colour that fills it
TallImages ==
    {[kind |-> "load", width |-> 1, height |-> headerMax + 1, fill |-> p] :
        p \in {Black, White}}

RasterImages(t) ==
    UNION {{[kind |-> "load", width |-> s[2], height |-> s[3], data |-> d] :
               d \in CanvasesOf(t * displayHeightOf([width |-> s[2], height |-> s[3]], t))} :
           s \in {r \in RasterSizes : r[1] = t}}
    \cup (IF t = 1 THEN TallImages ELSE {})

InitRaster ==
    /\ targetWidth \in {s[1] : s \in RasterSizes}
    /\ image \in RasterImages(targetWidth) \cup {LoadError}
    /\ imageCommands = Pending
    /\ ExtractorQuiet
    /\ EncoderQuiet
    /\ AppQuiet

\* img.onload: the commands of the image, unless getImageData throws: it
\* throws for a canvas with no row, and a browser may hold no canvas as high
\* as the tall image (`held` says whether this one does)
RasterOnload(held) ==
    /\ imageCommands = Pending
    /\ image.kind = "load"
    /\ held \/ displayHeightOf(image, targetWidth) > headerMax
    /\ imageCommands' = IF onloadThrows(image, targetWidth) \/ ~held THEN [kind |-> "hung"]
                       ELSE IF inOneColour(image) THEN onloadRun(image, targetWidth)
                       ELSE [kind |-> "bytes", bytes |-> printImage(image, targetWidth)]
    /\ UNCHANGED <<targetWidth, image, extractorVars, encoderVars, appVars>>

\* img.onerror: no command
RasterOnerror ==
    /\ imageCommands = Pending
    /\ image.kind = "error"
    /\ imageCommands' = [kind |-> "bytes", bytes |-> printImage(image, targetWidth)]
    /\ UNCHANGED <<targetWidth, image, extractorVars, encoderVars, appVars>>

NextRaster == (\E held \in BOOLEAN : RasterOnload(held)) \/ RasterOnerror

SpecRaster == InitRaster /\ [][NextRaster]_vars

(***************************************************************************)
(* The application, App.                                                   *)
(*                                                                         *)
(* The repository holds two copies of it, src/src/App.jsx and              *)
(* src/unnamed/part_000; `revision` says which one runs.  app is the state *)
(* of the component, [xmlData, status]; readers holds the FileReaders that *)
(* have not ended yet, each [via, file, last]: the handler that made it,   *)
(* the file it reads, and whether no file was selected or dropped after    *)
(* its own; print is the call of handleWebUSBPrint in progress, with the   *)
(* device it holds, whether device.close() was called, and the transfers   *)
(* made.                                                                   *)
(***************************************************************************)
Revisions == {"App.jsx", "part_000"}

MaxLoads == 2

MaxCopies == 2

\* the text of an empty file
EmptyText ==
    [isString |-> TRUE, refs4 |-> 0, wellFormed |-> FALSE, empty |-> TRUE,
     doc |-> [company |-> [where |-> "none", text |-> <<>>], vouchers |-> <<>>]]

\* !content || content.length === 0
isEmpty(content) == "empty" \in DOMAIN content

\* the files selected or dropped: [xml, readable, content], whether the name
\* or type says XML, whether the read succeeds, and the text read
Files ==
    {[xml |-> TRUE, readable |-> TRUE, content |-> c] :
        c \in {VoucherText(FixtureHeader, <<PenEntry>>, <<PartyEntry>>),
               NoVoucherText(FixtureHeader), EmptyText}}
    \cup {[xml |-> TRUE, readable |-> FALSE, content |-> EmptyText],
          [xml |-> FALSE, readable |-> TRUE,
           content |-> VoucherText(FixtureHeader, <<PenEntry>>, <<PartyEntry>>)]}

\* what reader.onload leaves in the state, in handleFileChange and in
\* handleDrop alike: part_000 has no test of the content
onloadState(rev, b, content) ==
    IF rev = "App.jsx" /\ isEmpty(content)
    THEN [xmlData |-> Null, status |-> "Error: empty or unreadable"]
    ELSE LET parsed == parseTallyXML(b, content)
         IN IF parsed.kind = "doc"
            THEN [xmlData |-> parsed, status |-> "Successfully parsed"]
            ELSE [xmlData |-> Null, status |-> "Error: Failed to parse"]

\* what a read error leaves in the state a: handleFileChange of App.jsx
\* resets the document, handleDrop sets the status only, and part_000 sets no
\* onerror handler
afterOnerror(rev, via, a) ==
    IF rev = "App.jsx" /\ via = "change"
    THEN [xmlData |-> Null, status |-> "Error reading file"]
    ELSE IF rev = "App.jsx" /\ via = "drop"
    THEN [a EXCEPT !.status = "Error reading dropped file"]
    ELSE a

\* printRef.current, the node that PrintPreview mounts: the preview is a
\* display of the document, and has a node to print when it shows one
printRefCurrent(a) == a.xmlData # Null

\* variant: the call goes on whatever the state holds
passesGuard_NoTest(rev, a) == TRUE

\* whether the first test of handleWebUSBPrint lets the call go on: App.jsx
\* tests xmlData, part_000 tests printRef.current
passesGuard(rev, a) ==
    IF rev = "App.jsx" THEN a.xmlData # Null ELSE printRefCurrent(a)

\* new Uint8Array([0x0A, 0x0A, 0x0A])
feed == <<10, 10, 10>>

\* new Uint8Array([0x1D, 0x56, 0x41, 0x00])
cut == <<29, 86, 65, 0>>

\* the three transfers of one copy: the text of the preview, feed, cut
copyTransfers(text) ==
    <<[what |-> "text", of |-> text, bytes |-> <<>>],
      [what |-> "feed", of |-> text, bytes |-> feed],
      [what |-> "cut", of |-> text, bytes |-> cut]>>

(***************************************************************************)
(* The application as a state machine.                                     *)
(***************************************************************************)
\* the readers at work once another file is selected or dropped
earlier(rs) == {[r EXCEPT !.last = FALSE] : r \in rs}

InitApp ==
    /\ revision \in Revisions
    /\ build \in Builds
    /\ xmlString = NotAString
    /\ data = Pending
    /\ app = InitialApp
    /\ readers = {}
    /\ loads = 0
    /\ print = IdlePrint
    /\ EncoderQuiet
    /\ RasterQuiet

\* handleFileChange: a file is selected in the input, which accepts .xml
\* files; reader.readAsText(file)
HandleFileChange(file) ==
    /\ file.xml
    /\ loads < MaxLoads
    /\ loads' = loads + 1
    /\ readers' = earlier(readers) \cup {[via |-> "change", file |-> file, last |-> TRUE]}
    /\ app' = [app EXCEPT !.status = "Reading"]
    /\ UNCHANGED <<revision, print, extractorVars, encoderVars, rasterVars>>

\* handleDrop (App.jsx only): a file is dropped; one that is no XML file
\* changes the status only
HandleDrop(file) ==
    /\ revision = "App.jsx"
    /\ loads < MaxLoads
    /\ loads' = loads + 1
    /\ IF file.xml
       THEN /\ readers' = earlier(readers) \cup {[via |-> "drop", file |-> file, last |-> TRUE]}
            /\ app' = [app EXCEPT !.status = "Reading dropped file"]
       ELSE /\ readers' = earlier(readers)
            /\ app' = [app EXCEPT !.status = "Please drop a valid XML file"]
    /\ UNCHANGED <<revision, print, extractorVars, encoderVars, rasterVars>>

\* reader.onload
ReaderOnload(r) ==
    /\ r \in readers
    /\ r.file.readable
    /\ readers' = readers \ {r}
    /\ app' = onloadState(revision, build, r.file.content)
    /\ UNCHANGED <<revision, loads, print, extractorVars, encoderVars, rasterVars>>

\* reader.onerror, or the error event with no handler set
ReaderOnerror(r) ==
    /\ r \in readers
    /\ ~r.file.readable
    /\ readers' = readers \ {r}
    /\ app' = afterOnerror(revision, r.via, app)
    /\ UNCHANGED <<revision, loads, print, extractorVars, encoderVars, rasterVars>>

\* handleWebUSBPrint is called (button or shortcut): the first test, which
\* ends the call with an alert (a modal one, closed before the next call),
\* then navigator.usb.requestDevice
HandleWebUSBPrint(copyCount) ==
    /\ print.pc = "idle"
    /\ print.sent = <<>>
    /\ IF passesGuard(revision, app)
       THEN /\ print' = [print EXCEPT !.pc = "requestDevice", !.copies = copyCount,
                                      !.text = app.xmlData, !.alert = "none"]
            /\ app' = IF revision = "App.jsx"
                      THEN [app EXCEPT !.status = "Requesting USB device"] ELSE app
       ELSE /\ print' = [print EXCEPT !.alert = "Nothing to print"]
            /\ app' = app
    /\ UNCHANGED <<revision, readers, loads, extractorVars, encoderVars, rasterVars>>

\* the catch clause, entered from any await that throws
Caught ==
    /\ print' = [print EXCEPT !.pc = IF revision = "App.jsx" THEN "finally" ELSE "done"]
    /\ app' = IF revision = "App.jsx"
              THEN [app EXCEPT !.status = "Printing failed"] ELSE app

\* navigator.usb.requestDevice resolves with a device, or rejects
RequestDevice(granted) ==
    /\ print.pc = "requestDevice"
    /\ IF granted
       THEN print' = [print EXCEPT !.pc = "open"] /\ app' = app
       ELSE Caught
    /\ UNCHANGED <<revision, readers, loads, extractorVars, encoderVars, rasterVars>>

\* device.open()
DeviceOpen(ok) ==
    /\ print.pc = "open"
    /\ IF ok
       THEN print' = [print EXCEPT !.pc = "selectConfiguration", !.opened = TRUE] /\ app' = app
       ELSE Caught
    /\ UNCHANGED <<revision, readers, loads, extractorVars, encoderVars, rasterVars>>

\* device.selectConfiguration(1)
SelectConfiguration(ok) ==
    /\ print.pc = "selectConfiguration"
    /\ IF ok
       THEN print' = [print EXCEPT !.pc = "claimInterface"] /\ app' = app
       ELSE Caught
    /\ UNCHANGED <<revision, readers, loads, extractorVars, encoderVars, rasterVars>>

\* device.claimInterface(0), then the search of the OUT endpoint: an Error is
\* thrown when there is none
ClaimInterface(ok, endpoint) ==
    /\ print.pc = "claimInterface"
    /\ IF ok /\ endpoint
       THEN /\ print' = [print EXCEPT !.pc = "transferOut", !.claimed = TRUE]
            /\ app' = IF revision = "App.jsx"
                      THEN [app EXCEPT !.status = "Printing copy"] ELSE app
       ELSE /\ print' = [print EXCEPT !.pc = IF revision = "App.jsx" THEN "finally" ELSE "done",
                                      !.claimed = ok]
            /\ app' = IF revision = "App.jsx"
                      THEN [app EXCEPT !.status = "Printing failed"] ELSE app
    /\ UNCHANGED <<revision, readers, loads, extractorVars, encoderVars, rasterVars>>

\* device.transferOut: the next of the three transfers of copy i; after the
\* last transfer of the last copy the try block ends
TransferOut(ok) ==
    /\ print.pc = "transferOut"
    /\ IF ok
       THEN LET sent == Append(print.sent, copyTransfers(print.text)[(Len(print.sent) % 3) + 1])
                last == Len(sent) = 3 * print.copies
            IN /\ print' = [print EXCEPT !.sent = sent, !.i = Len(sent) \div 3,
                                         !.pc = IF ~last THEN "transferOut"
                                                ELSE IF revision = "App.jsx" THEN "finally"
                                                ELSE "close"]
               /\ app' = IF revision = "App.jsx"
                         THEN [app EXCEPT !.status = IF last THEN "Printed" ELSE "Printing copy"]
                         ELSE app
       ELSE Caught
    /\ UNCHANGED <<revision, readers, loads, extractorVars, encoderVars, rasterVars>>

\* part_000: await device.close() at the end of the try block
DeviceClose(ok) ==
    /\ print.pc = "close"
    /\ print' = [print EXCEPT !.pc = "done", !.opened = ~ok, !.claimed = ~ok,
                               !.closeCalled = TRUE]
    /\ app' = app
    /\ UNCHANGED <<revision, readers, loads, extractorVars, encoderVars, rasterVars>>

\* App.jsx: the finally clause: when the device is open, releaseInterface(0)
\* and then close(); an error of either is caught and logged, and close is
\* not reached when releaseInterface throws
Finally(released, closed) ==
    /\ print.pc = "finally"
    /\ print' = IF print.opened
                THEN [print EXCEPT !.pc = "done",
                                   !.claimed = IF released THEN FALSE ELSE @,
                                   !.opened = ~(released /\ closed),
                                   !.closeCalled = released]
                ELSE [print EXCEPT !.pc = "done"]
    /\ app' = app
    /\ UNCHANGED <<revision, readers, loads, extractorVars, encoderVars, rasterVars>>

NextApp ==
    \/ \E file \in Files : HandleFileChange(file)
    \/ \E file \in Files : HandleDrop(file)
    \/ \E r \in readers : ReaderOnload(r)
    \/ \E r \in readers : ReaderOnerror(r)
    \/ \E copyCount \in 1..MaxCopies : HandleWebUSBPrint(copyCount)
    \/ \E granted \in BOOLEAN : RequestDevice(granted)
    \/ \E ok \in BOOLEAN : DeviceOpen(ok)
    \/ \E ok \in BOOLEAN : SelectConfiguration(ok)
    \/ \E ok \in BOOLEAN, endpoint \in BOOLEAN : ClaimInterface(ok, endpoint)
    \/ \E ok \in BOOLEAN : TransferOut(ok)
    \/ \E ok \in BOOLEAN : DeviceClose(ok)
    \/ \E released \in BOOLEAN, closed \in BOOLEAN : Finally(released, closed)

SpecApp == InitApp /\ [][NextApp]_vars

(***************************************************************************)
(* Reading a stream.                                                       *)
(***************************************************************************)
\* the places of the stream where the bytes pat stand
Occurrences(stream, pat) ==
    {k \in 1..(Len(stream) - Len(pat) + 1) :
        stream[k] = pat[1] /\ SubSeq(stream, k, k + Len(pat) - 1) = pat}

\* the greatest place of a set that is not empty
Last(places) == CHOOSE k \in places : \A j \in places : j <= k

RECURSIVE InOrder(_, _, _)
\* the marks stand in the stream in their order after the place `from`, each
\* as many times as it says: a mark is [pat, atLeast, atMost]
InOrder(stream, marks, from) ==
    IF marks = <<>> THEN TRUE
    ELSE LET occ == Occurrences(stream, Head(marks).pat)
         IN /\ Cardinality(occ) >= Head(marks).atLeast
            /\ Cardinality(occ) <= Head(marks).atMost
            /\ \A k \in occ : k > from
            /\ InOrder(stream, Tail(marks), IF occ = {} THEN from ELSE Last(occ))

\* a mark that stands exactly once, one that stands once when `present` and
\* not at all otherwise, and one that stands once at most
Once(pat) == [pat |-> pat, atLeast |-> 1, atMost |-> 1]

OnceIff(present, pat) ==
    [pat |-> pat, atLeast |-> IF present THEN 1 ELSE 0, atMost |-> IF present THEN 1 ELSE 0]

AtMostOnce(pat) == [pat |-> pat, atLeast |-> 0, atMost |-> 1]

\* the calls that returned a stream for a document
Returned == {c \in Calls : calls[c].pc = "resolved" /\ calls[c].xmlData.kind = "doc"}

\* the calls that have ended: returned, thrown, or left suspended for ever
Ended == {c \in Calls : calls[c].pc \in {"resolved", "rejected", "hung"}}

\* the settings as the controls keep them, with their section styles
WellFormed(settings) ==
    /\ "sectionStyles" \in DOMAIN settings
    /\ "orderInfo" \in DOMAIN settings.sectionStyles

(***************************************************************************)
(* C11.  Encoding is deterministic: two calls of generateEscPosCommands    *)
(* with the same document and the same settings, whose image load (if any) *)
(* ended the same way, end the same way with the same bytes, whatever the  *)
(* other call did before or in between.                                    *)
(***************************************************************************)
C11_Deterministic ==
    \A c \in Ended, d \in Ended :
        (/\ calls[c].xmlData = calls[d].xmlData
         /\ calls[c].settings = calls[d].settings
         /\ calls[c].outcome = calls[d].outcome)
        => /\ calls[c].pc = calls[d].pc
           /\ calls[c].commands = calls[d].commands

\* both calls returned a stream for the same document and settings, with a
\* logo that loaded
C11_Witness ==
    /\ Returned = Calls
    /\ calls[1].xmlData = calls[2].xmlData
    /\ calls[1].settings = calls[2].settings
    /\ calls[1].settings.logoUrl # <<>>
    /\ calls[1].outcome = calls[2].outcome
    /\ calls[1].outcome.kind = "load"
    /\ Len(calls[1].commands) > 100

(***************************************************************************)
(* C12.  The stream returned for a document begins with ESC @, and its     *)
(* sections stand in the fixed order, each one once: logo (exactly when a  *)
(* logo URL is set), company block, heading, order details, party block    *)
(* (exactly when the party has a name), table header between separators,   *)
(* item rows, totals, amount in words, narration (exactly when there is    *)
(* one), terms, signatory, the feed of five lines, and GS V 0 as the last  *)
(* bytes.                                                                  *)
(***************************************************************************)
\* the first name line of an item
FirstNameLine(item) ==
    printLine(padEnd(sNoText(item), SNO_COL_WIDTH) \o <<" ">>
              \o SubSeq(item.name, 1, Min(Len(item.name), ITEM_NAME_COL_WIDTH(version))))

\* the marks of the item rows: the first line of each item, or the line that
\* says there is none
RowMarks(doc) ==
    LET items == field(doc, "items")
    IN IF Len(items) = 0 THEN <<Once(encodeText(<<"N", "o", " ", "i", "t", "e", "m", "s", " ", "f", "o", "u", "n", "d", ".">>) \o <<LF>>)>>
       ELSE [k \in 1..Len(items) |-> Once(FirstNameLine(items[k]))]

\* the marks of the sections of the stream of call c, in the order claimed
SectionMarks(c) ==
    LET doc == calls[c].xmlData.doc
        settings == calls[c].settings
        separator == printSeparator(separatorChar(settings), TOTAL_RECEIPT_WIDTH(version))
    IN <<Once(<<ESC, 64>>),
         OnceIff(settings.logoUrl # <<>> /\ calls[c].outcome.kind = "load", <<GS, 118, 48, 0>>),
         Once(setAlignment(settings.headerAlignment) \o <<ESC, 69, 1, ESC, 33, 48>>),
         Once(<<ESC, 69, 1>> \o encodeText(headingText(doc)) \o <<LF>>),
         Once(encodeText(<<"V", "o", "u", "c", "h", "e", "r", " ", "N", "o", ":", " ">>)),
         Once(encodeText(<<"D", "a", "t", "e", ":", " ">>)),
         Once(encodeText(<<"E", "n", "t", "e", "r", "e", "d", " ", "B", "y", ":", " ">>)),
         OnceIff(field(doc.party, "name") # <<>>, encodeText(<<"P", "A", "R", "T", "Y", " ", "D", "E", "T", "A", "I", "L", "S", ":">>) \o <<LF>>),
         Once(separator \o <<ESC, 97, 0, ESC, 69, 1>> \o encodeText(<<"S", ".", "N", "o">>)),
         Once(<<ESC, 69, 0>> \o separator)>>
       \o RowMarks(doc)
       \o <<Once(separator \o <<ESC, 97, 2>> \o encodeText(<<"S", "u", "b", " ", "T", "o", "t", "a", "l", ":", " ">>)),
            Once(encodeText(<<"T", "O", "T", "A", "L", ":", " ", "R", "s", ".", " ">>)),
            AtMostOnce(encodeText(<<"A", "m", "o", "u", "n", "t", " ", "i", "n", " ", "W", "o", "r", "d", "s", ":">>) \o <<LF>>),
            OnceIff(field(doc, "narration") # <<>>, encodeText(<<"N", "a", "r", "r", "a", "t", "i", "o", "n", ":">>) \o <<LF>>),
            AtMostOnce(encodeText(<<"T", "e", "r", "m", "s", " ", "&", " ", "C", "o", "n", "d", "i", "t", "i", "o", "n", "s", ":">>) \o <<LF>>),
            AtMostOnce(<<ESC, 97, 2, LF, LF>>),
            Once(<<LF, LF, LF, LF, LF, GS, 86, 0>>)>>

C12_SectionOrder ==
    \A c \in Returned :
        LET stream == calls[c].commands
        IN /\ SubSeq(stream, 1, 2) = <<ESC, 64>>
           /\ calls[c].settings.logoUrl # <<>> => SubSeq(stream, 3, 5) = <<ESC, 97, 1>>
           /\ InOrder(stream, SectionMarks(c), 0)
           /\ SubSeq(stream, Len(stream) - 2, Len(stream)) = <<GS, 86, 0>>

\* a stream with every section: a logo that loaded, a party, three items, a
\* narration, terms and a signatory
C12_Witness ==
    \E c \in Returned :
        /\ calls[c].xmlData = FullDoc
        /\ calls[c].settings.logoUrl # <<>>
        /\ calls[c].outcome.kind = "load"
        /\ Occurrences(calls[c].commands, encodeText(<<"N", "a", "r", "r", "a", "t", "i", "o", "n", ":">>)) # {}
        /\ Occurrences(calls[c].commands, <<GS, 118, 48, 0>>) = {6}

(***************************************************************************)
(* C13.  For a document whose item list is empty or absent, the call       *)
(* returns a stream with exactly one line "No items found.", standing      *)
(* alone between the table header and the totals (no item row, no summary  *)
(* line), and closed by the five line feeds and GS V 0.                    *)
(***************************************************************************)
\* the calls that have ended for a document with no item
EndedWithNoItem ==
    {c \in Ended : calls[c].xmlData.kind = "doc"
                   /\ Len(field(calls[c].xmlData.doc, "items")) = 0}

C13_NoItemsLine ==
    \A c \in EndedWithNoItem :
        LET stream == calls[c].commands
            separator == printSeparator(separatorChar(calls[c].settings),
                                        TOTAL_RECEIPT_WIDTH(version))
            noItems == encodeText(<<"N", "o", " ", "i", "t", "e", "m", "s", " ", "f", "o", "u", "n", "d", ".">>) \o <<LF>>
        IN /\ calls[c].pc = "resolved"
           /\ Cardinality(Occurrences(stream, noItems)) = 1
           /\ Cardinality(Occurrences(stream,
                  <<ESC, 69, 0>> \o separator \o noItems \o <<LF>> \o separator
                  \o <<ESC, 97, 2>> \o encodeText(<<"S", "u", "b", " ", "T", "o", "t", "a", "l", ":", " ">>))) = 1
           /\ SubSeq(stream, Len(stream) - 7, Len(stream)) = <<LF, LF, LF, LF, LF, GS, 86, 0>>

(***************************************************************************)
(* C14.  In a returned stream the name of an item stands on one line when  *)
(* it is no longer than the name column W, and on ceil(L / W) lines when   *)
(* its length L is greater (3 lines for L = 2 * W + 3): the first line has *)
(* the serial number, a space and the first W characters, each following   *)
(* line has an indent of the S.No column width plus one and the next W     *)
(* characters, in order and none lost; the summary line follows the last.  *)
(***************************************************************************)
\* ceil(a / b)
CeilDiv(a, b) == (a + b - 1) \div b

\* the number of name lines claimed for a name of length len
NameLineCount(len) ==
    IF len > ITEM_NAME_COL_WIDTH(version) THEN CeilDiv(len, ITEM_NAME_COL_WIDTH(version)) ELSE 1

\* the lines claimed for the name of an item, the following ones indented by
\* `indent` spaces, and the summary line after them, as bytes
NameBlock(item, indent) ==
    LET w == ITEM_NAME_COL_WIDTH(version)
        len == Len(item.name)
        piece(k) == SubSeq(item.name, (k - 1) * w + 1, Min(k * w, len))
        lines == [k \in 1..NameLineCount(len) |->
                     IF k = 1 THEN padEnd(sNoText(item), SNO_COL_WIDTH) \o <<" ">> \o piece(1)
                     ELSE [i \in 1..indent |-> " "] \o piece(k)]
    IN Flatten([k \in 1..Len(lines) |-> encodeText(lines[k]) \o <<LF>>])
       \o encodeText(itemSummaryLine(version, item)) \o <<LF>>

\* the name blocks stand in every returned stream, with the given indent
NameBlocksStand(indent) ==
    \A c \in Returned :
        LET items == field(calls[c].xmlData.doc, "items")
        IN \A k \in 1..Len(items) :
               Cardinality(Occurrences(calls[c].commands, NameBlock(items[k], indent))) = 1

C14_NameLines == NameBlocksStand(SNO_COL_WIDTH + 1)

\* the claim as it stands: an indent of the S.No column width
C14_IndentIsSNoWidth == NameBlocksStand(SNO_COL_WIDTH)

\* a returned stream with a name of length 2 * W + 3 on three lines
C14_Witness ==
    \E c \in Returned :
        LET items == field(calls[c].xmlData.doc, "items")
        IN \E k \in 1..Len(items) :
               /\ Len(items[k].name) = 2 * ITEM_NAME_COL_WIDTH(version) + 3
               /\ NameLineCount(Len(items[k].name)) = 3
               /\ Occurrences(calls[c].commands, NameBlock(items[k], SNO_COL_WIDTH + 1)) # {}

(***************************************************************************)
(* C16.  A call with a logo URL whose image failed to load returns a       *)
(* stream that holds no GS v 0 block, and whose bytes after the place of   *)
(* the logo are those of the stream that the same document and settings    *)
(* give when the image loads.                                              *)
(***************************************************************************)
\* the calls that have ended for a document after the load of its logo failed
EndedAfterLoadError ==
    {c \in Ended : calls[c].xmlData.kind = "doc" /\ calls[c].outcome.kind = "error"}

\* the bytes of a stream after its image block, which begins at place 6
\* with GS v 0 m xL xH yL yH
AfterImage(stream) ==
    SubSeq(stream, 14 + (stream[10] + 256 * stream[11]) * (stream[12] + 256 * stream[13]),
           Len(stream))

C16_LogoFailure ==
    \A c \in EndedAfterLoadError :
        /\ calls[c].pc = "resolved"
        /\ Occurrences(calls[c].commands, <<GS, 118, 48>>) = {}
        /\ \A d \in Returned :
               (/\ calls[d].xmlData = calls[c].xmlData
                /\ calls[d].settings = calls[c].settings
                /\ calls[d].outcome.kind = "load")
               => /\ SubSeq(calls[d].commands, 1, 5) = SubSeq(calls[c].commands, 1, 5)
                  /\ AfterImage(calls[d].commands)
                         = SubSeq(calls[c].commands, 6, Len(calls[c].commands))

(***************************************************************************)
(* C17.  In the totals of a returned stream the line of a tax (CGST, SGST, *)
(* IGST) stands exactly when the field of the document is not "0.00"; the  *)
(* subtotal line comes first, the tax lines after it in that order, the    *)
(* total line last; and the document of the call still has the three tax   *)
(* fields.                                                                 *)
(***************************************************************************)
\* the line of a tax, as bytes
TaxLine(label, value) == encodeText(label \o value) \o <<LF>>

C17_TaxLines ==
    \A c \in Returned :
        LET totals == calls[c].xmlData.doc.totals
            nonZero(value) == value # <<"0", ".", "0", "0">>
        IN /\ {"cgst", "sgst", "igst"} \subseteq DOMAIN totals
           /\ InOrder(calls[c].commands,
                  <<Once(<<ESC, 97, 2>> \o encodeText(<<"S", "u", "b", " ", "T", "o", "t", "a", "l", ":", " ">>)),
                    OnceIff(nonZero(totals.cgst), TaxLine(<<"C", "G", "S", "T", ":", " ">>, totals.cgst)),
                    OnceIff(nonZero(totals.sgst), TaxLine(<<"S", "G", "S", "T", ":", " ">>, totals.sgst)),
                    OnceIff(nonZero(totals.igst), TaxLine(<<"I", "G", "S", "T", ":", " ">>, totals.igst)),
                    Once(<<ESC, 69, 1>>
                         \o (IF version = "part_001" THEN <<>> ELSE <<ESC, 33, 48>>)
                         \o encodeText((IF version = "part_001" THEN <<>> ELSE <<"G", "R", "A", "N", "D", " ">>)
                                       \o <<"T", "O", "T", "A", "L", ":", " ", "R", "s", ".", " ">>))>>, 0)

(***************************************************************************)
(* C18.  Encoding never fails: a call with a document that parseTallyXML   *)
(* returned and settings the application can hold (the defaults, settings  *)
(* edited in the controls, settings restored from the storage) ends by     *)
(* returning a stream: it neither throws nor stays suspended.              *)
(***************************************************************************)
C18_EncodingNeverFails ==
    \A c \in Ended :
        (/\ calls[c].xmlData \in ExtractedDocs
         /\ calls[c].settings \in {DefaultSettings} \cup EditedSettings \cup RestoredSettings)
        => calls[c].pc = "resolved"

(***************************************************************************)
(* C15.  For an image drawn W pixels wide and H pixels high, the bitmap    *)
(* that follows the GS v 0 header has ceil(W / 8) * H bytes, row by row;   *)
(* the bit 7 - (x mod 8) of the byte x div 8 of row y is 1 exactly when    *)
(* the luminance of the pixel (x, y) is below 128, and the pad bits beyond *)
(* the width are 0: a white image gives zero bytes only, a black image     *)
(* sets every used bit.                                                    *)
(***************************************************************************)
\* the bit b of a byte
BitOf(byte, b) == (byte \div Pow2(b)) % 2

C15_BitmapByLuminance ==
    (imageCommands.kind = "bytes" /\ image.kind = "load") =>
        LET w == targetWidth
            h == (Len(image.data)) \div targetWidth
            bytesPerRow == CeilDiv(w, 8)
            bitmap == SubSeq(imageCommands.bytes, 9, Len(imageCommands.bytes))
        IN /\ Len(bitmap) = bytesPerRow * h
           /\ \A y \in 0..(h - 1), x \in 0..(8 * bytesPerRow - 1) :
                  BitOf(bitmap[y * bytesPerRow + (x \div 8) + 1], 7 - (x % 8))
                      = IF x < w /\ luminance1000(image.data[y * w + x + 1]) < 128000
                        THEN 1 ELSE 0

(***************************************************************************)
(* C27.  The commands of an image that loaded are GS v 0, m = 0, xL, xH,   *)
(* yL, yH and then rowBytes * heightPixels bytes, with xL + 256 * xH the   *)
(* bytes of a row, ceil(W / 8), and yL + 256 * yH the height the image is  *)
(* scaled to, for an image of any height.                                  *)
(***************************************************************************)
\* the header of the commands of the image, and the number of bytes after it
HeaderOf(commands) ==
    IF commands.kind = "run" THEN commands.header ELSE SubSeq(commands.bytes, 1, 8)

BitmapLengthOf(commands) ==
    IF commands.kind = "run" THEN commands.length ELSE Len(commands.bytes) - 8

C27_RasterHeader ==
    (imageCommands.kind \in {"bytes", "run"} /\ image.kind = "load") =>
        LET header == HeaderOf(imageCommands)
            rowBytes == CeilDiv(targetWidth, 8)
            heightPixels == displayHeightOf(image, targetWidth)
        IN /\ SubSeq(header, 1, 4) = <<GS, 118, 48, 0>>
           /\ header[5] + 256 * header[6] = rowBytes
           /\ header[7] + 256 * header[8] = heightPixels
           /\ BitmapLengthOf(imageCommands) = rowBytes * heightPixels

(***************************************************************************)
(* C19.  When a load ends, the document of the application is the one      *)
(* extracted from the file if the load succeeded, and null if it failed    *)
(* (empty content, read error, extraction failure): the document of an     *)
(* earlier load is not kept after a later load that failed.                *)
(***************************************************************************)
\* the load of reader r ends in this step: no file is selected or dropped,
\* and r is no longer at work
LoadEnds(r) == loads' = loads /\ readers' = readers \ {r}

\* what the load of reader r must leave as the document
DocumentAfter(r) ==
    IF r.file.readable /\ ~isEmpty(r.file.content)
    THEN parseTallyXML(build, r.file.content)
    ELSE Null

C19_DocumentFollowsLastLoad ==
    [][\A r \in readers : LoadEnds(r) => app'.xmlData = DocumentAfter(r)]_vars

(***************************************************************************)
(* C20.  A load whose extraction failed leaves an error status, which is   *)
(* not the status of a success; a print request made while the document is *)
(* null ends at its first test: the device is not requested or opened and  *)
(* nothing is sent; and every transfer made carries the text of a          *)
(* document.                                                               *)
(***************************************************************************)
\* the load of reader r reads a text that the extraction rejects
ExtractionFails(r) ==
    r.file.readable /\ DocumentAfter(r) = Null

C29_DeviceClosedAtEnd ==
    (print.pc = "done" /\ print.opened) => print.closeCalled

(***************************************************************************)
(* C28.  The state follows the file selected last: once the read of the    *)
(* file selected or dropped last has ended, the end of the read of a file  *)
(* selected before it changes neither the document nor the status.         *)
(***************************************************************************)
\* reader r ends in this step, after the read of every later file
EndsLate(r) ==
    /\ LoadEnds(r)
    /\ \A q \in readers : ~q.last

C28_LastSelectedWins == [][\A r \in readers : EndsLate(r) => app' = app]_vars

(***************************************************************************)
(* C21.  A print of N copies that went through has sent N copies, all the  *)
(* same, and each copy is the stream of generateEscPosCommands for the     *)
(* document printed: the bytes that close the copy (those sent after its   *)
(* text) are the end of that stream, the feed and GS V 0.                  *)
(***************************************************************************)
\* the copy of generateEscPosCommands that stands beside a copy of App
EncoderOf(rev) == IF rev = "App.jsx" THEN "generateEscPosCommands.js" ELSE "part_001"

\* the transfers of copy i
CopySent(i) == SubSeq(print.sent, 3 * i - 2, 3 * i)

\* handleWebUSBPrint has ended after the last transfer of the last copy
AllCopiesSent ==
    /\ print.pc = "done"
    /\ print.copies > 0
    /\ Len(print.sent) = 3 * print.copies

C21_CopiesAreEncoderStreams ==
    AllCopiesSent =>
        LET stream == generateEscPosCommands(EncoderOf(revision), print.text,
                                             DefaultSettings, NoOutcome).commands
        IN \A i \in 1..print.copies :
               LET closing == CopySent(i)[2].bytes \o CopySent(i)[3].bytes
               IN /\ CopySent(i) = CopySent(1)
                  /\ CopySent(i)[1].of = print.text
                  /\ Len(stream) >= Len(closing)
                  /\ SubSeq(stream, Len(stream) - Len(closing) + 1, Len(stream)) = closing

(***************************************************************************)
(* C22.  Calls that overlap do not interfere: every call that has ended,   *)
(* whatever the other call did while it was suspended and in whatever      *)
(* order the two loads ended, ended as the same call run alone ends under  *)
(* the same outcome of its load, with the same bytes.                      *)
(***************************************************************************)
C22_NoInterference ==
    \A c \in Ended :
        LET alone == generateEscPosCommands(version, calls[c].xmlData, calls[c].settings,
                                            calls[c].outcome)
        IN /\ calls[c].pc = alone.pc
           /\ calls[c].commands = alone.commands

\* the second call started while the first was suspended at its await, with
\* other arguments; both were suspended and both returned, their loads having
\* ended differently
C22_Witness ==
    /\ Returned = Calls
    /\ calls[2].overlapped
    /\ calls[1].settings.logoUrl # <<>>
    /\ calls[2].settings.logoUrl # <<>>
    /\ calls[1].xmlData # calls[2].xmlData
    /\ calls[1].outcome # calls[2].outcome
    /\ calls[1].commands # calls[2].commands

(***************************************************************************)
(* C24.  In a returned stream the summary line of every item, which        *)
(* follows its name lines, is its text (quantity, rate and amount, whole   *)
(* and in that order, the amount at the end) after as many spaces as bring *)
(* it to the total line width, and after none when the text is longer.     *)
(***************************************************************************)
\* a line without the spaces it begins with
StripLeft(line) ==
    LET inked == {k \in 1..Len(line) : line[k] # " "}
    IN IF inked = {} THEN <<>>
       ELSE SubSeq(line, CHOOSE k \in inked : \A j \in inked : k <= j, Len(line))

\* quantity, rate and amount as the summary line shows them: part_001 prints
\* numbers with two decimals, generateEscPosCommands.js the texts as they are
Shown(value) == IF version = "part_001" THEN toFixed2(parseFloat(value)) ELSE value

\* the text holds the parts whole, one after the other, the last at its end
HoldsInOrder(text, qty, rate, amount) ==
    \E i \in Occurrences(text, qty), j \in Occurrences(text, rate) :
        /\ i + Len(qty) <= j
        /\ j + Len(rate) <= Len(text) - Len(amount) + 1
        /\ SubSeq(text, Len(text) - Len(amount) + 1, Len(text)) = amount

C24_SummaryLine ==
    \A c \in Returned :
        LET items == field(calls[c].xmlData.doc, "items")
            width == TOTAL_RECEIPT_WIDTH(version)
        IN \A k \in 1..Len(items) :
               LET line == itemSummaryLine(version, items[k])
                   text == StripLeft(line)
               IN /\ Occurrences(calls[c].commands,
                                 NameBlock(items[k], SNO_COL_WIDTH + 1)) # {}
                  /\ Len(line) = Max(width, Len(text))
                  /\ HoldsInOrder(text, Shown(items[k].qty), Shown(items[k].rate),
                                  Shown(items[k].amount))

(***************************************************************************)
(* C25.  In a returned stream a narration, and terms, of length L > 0      *)
(* stand under their heading as ceil(L / W) lines, W the total line width: *)
(* line k holds the characters (k - 1) * W + 1 to k * W of the text (the   *)
(* last line the rest), encoded, and an empty line follows the last.       *)
(***************************************************************************)
\* the lines claimed for a text, as bytes, and the empty line after them
ChunkLines(text) ==
    LET w == TOTAL_RECEIPT_WIDTH(version)
        piece(k) == SubSeq(text, (k - 1) * w + 1, Min(k * w, Len(text)))
    IN Flatten([k \in 1..CeilDiv(Len(text), w) |-> encodeText(piece(k)) \o <<LF>>]) \o <<LF>>

\* the text stands once under its heading and the bytes after it (bold off, or
\* left alignment), in the lines claimed
StandsInChunks(stream, heading, after, text) ==
    text # <<>> =>
        Cardinality(Occurrences(stream, encodeText(heading) \o <<LF>> \o after \o ChunkLines(text))) = 1

C25_FreeTextChunks ==
    \A c \in Returned :
        LET doc == calls[c].xmlData.doc
        IN /\ StandsInChunks(calls[c].commands, <<"N", "a", "r", "r", "a", "t", "i", "o", "n", ":">>, <<ESC, 69, 0>>,
                             field(doc, "narration"))
           /\ StandsInChunks(calls[c].commands, <<"T", "e", "r", "m", "s", " ", "&", " ", "C", "o", "n", "d", "i", "t", "i", "o", "n", "s", ":">>, <<ESC, 97, 0>>,
                             field(doc, "termsAndConditions"))

(***************************************************************************)
(* C23.  With a ledger entry named "SGST", sgst is the amount of the first *)
(* such entry, whatever it is, zero too: an entry named "SGST/UTGST" is    *)
(* not used then.                                                          *)
(***************************************************************************)
C23_PrimarySgstWins ==
    (data # Pending /\ HasVoucher) =>
        LET primary == FirstLedger("LEDGERNAME", <<"S", "G", "S", "T">>)
        IN primary # 0 =>
               /\ Extracted
               /\ data.doc.totals.sgst =
                      toFixed2(parseFloat(textContentOf("AMOUNT", SourceLedgers[primary])))

(***************************************************************************)
(* C26.  Every item of an extracted document has the five fields sNo,      *)
(* name, qty, rate and amount, so that the serial number printed at the    *)
(* head of its row is a number the document defines.                       *)
(***************************************************************************)
C26_ItemsCarryFields ==
    Extracted =>
        \A k \in 1..Len(data.doc.items) :
            {"sNo", "name", "qty", "rate", "amount"} \subseteq DOMAIN data.doc.items[k]

====
